---------------------------- MODULE Spec2Model ----------------------------
(***************************************************************************)
(* Model of the Garage-Parking-Assistant process controller                *)
(* (src/src/garage_parking_assistant).                                     *)
(*                                                                         *)
(* Threads of the program:                                                 *)
(*   "tick" : GarageParkingAssistant.run -> main_loop, forever             *)
(*   "bus"  : the MQTT client's delivery thread, which runs                *)
(*            GarageParkingAssistant.update for one message at a time      *)
(*   the detection thread of AIModule (ai_thread)                          *)
(*   the blink duration-watch threads (handle_blinking), one per positive  *)
(*   detection (blink_threads counts them per program position)            *)
(*                                                                         *)
(* Every step of a thread is one action.  A step contains at most one      *)
(* access to state that another thread can write at that moment; accesses  *)
(* protected by ai_lock or distances_lock are grouped under the lock.      *)
(*                                                                         *)
(* Time: a time stamp is kept as the time elapsed since it was taken, in   *)
(* seconds, saturating at CLOSE_DWELL (the only comparison the code makes  *)
(* is elapsed >= 5).  Elapse lets TimeStep seconds pass.                   *)
(***************************************************************************)
EXTENDS Integers, Sequences, FiniteSets, TLC

\* ------------------------------------------------------------------ bounds
\* number of blink duration-watch threads that may be alive at once
MaxBlink == 1
\* seconds that pass in one step of the clock
TimeStep == 5
\* longest vote list handed to the majority vote as a pure function
MaxVotes == 4

\* ------------------------------------------------------- program constants
\* None of the Python source, for distances and time stamps
None == -1
\* config.py: thresholds red / orange, per sensor
RED_DEFAULT == 3
ORANGE_DEFAULT == 10
\* main.py handle_automatic_garage_closure: elapsed_time >= 5
CLOSE_DWELL == 5
\* ai_detection.py _run_detection: frame_count = 3
frame_count == 3
\* config.py: led brightness
BRIGHTNESS == 20
\* led_manager.py update_leds: the blink toggles after 0.5 s; the model
\* counts this period as one unit of last_blink_time
BLINK_PERIOD == 1
\* led_manager.py: colours
RED == << 255, 0, 0 >>
ORANGE == << 255, 165, 0 >>
GREEN == << 0, 255, 0 >>
BLUE == << 0, 0, 255 >>
OFF == << 0, 0, 0 >>

Sensors == {"front", "left", "right"}
Threads == {"tick", "bus"}
\* positions of a blink duration-watch thread: in the polling loop, before
\* the final test of parking_procedure_active, before and inside
\* AIModule.start
BlinkPositions == {"poll", "final", "restart", "spawn"}

\* values a sensor can deliver in one measurement cycle: unavailable, inside
\* the red zone, far away
Readings == {None, 2, 50}

\* payloads delivered on the garage command topic and on the user status
\* topic
Commands == {"OPEN", "open", "CLOSE", "Stop"}
Statuses == {"on", "ON", "off"}
Messages == ({"garage_command"} \X Commands) \cup ({"user_status"} \X Statuses)
NoMsg == << "none", "none" >>

\* no settings payload at hand
NoFields == [k \in {} |-> None]
NoData == [kind |-> "none", text |-> "", fields |-> NoFields]

VARIABLES
  \* GarageParkingAssistant fields
  system_enabled, user_is_home, garage_door_open, process,
  parking_procedure_active, close_command_sent, red_proximity_start_time,
  distances, ai_lock,
  \* SensorManager
  red_distance_threshold, orange_distance_threshold,
  \* LedManager
  blinking,
  \* AIModule
  ai_thread, stop_event, object_present,
  \* handle_blinking threads
  blink_threads,
  \* positions of the tick and bus threads, local of the bus thread
  pc, previous_state,
  \* the message the bus thread has received and not yet dispatched
  bus_msg,
  \* whether the handler of the latest message published an unauthorized
  \* access notification
  pub_unauthorized,
  \* last retained publication per topic
  pub_process, pub_ai_detection, pub_system_enabled,
  \* history: CLOSE commands sent since the last start into PARKING
  closes_in_session,
  \* history: time for which every closure evaluation of the tick loop has
  \* seen the front distance inside the red zone, None after a gap
  red_dwell,
  \* history: an automatic closure has fired and no tick has started since
  closure_fired,
  \* value returned by is_car_in_garage
  car_result,
  \* _run_detection: the votes appended by the sub-detections
  detection_results,
  \* the pure functions applied so far
  applied,
  \* LED strip: the pixel value of each segment; LedManager.blink_state and
  \* LedManager.last_blink_time (time elapsed since it was taken)
  led_segments, blink_state, last_blink_time,
  \* what the latest publish_distances call sent per sensor
  pub_distance, pub_availability,
  \* _run_detection: the sub-detection threads
  sub_threads,
  \* a detection thread that AIModule.thread no longer refers to, and its
  \* local object_present
  ai_orphan, orphan_present,
  \* _run_detection: how often the current run has invoked the callback
  callbacks,
  \* measure_distances: the position in self.sensors (past the end when no
  \* cycle is in progress), the locals of the retry loop, and how often
  \* measure_distance was called per sensor in the cycle
  sensor_index, attempts, success, measured_distance, calls,
  \* LedManager.brightness; update_settings: the parsed payload, the
  \* position of the handler, and the settings when it was entered
  led_brightness, settings_data, settings_at, settings_prior,
  \* the thread inside "with self.distances_lock", the threads suspended in
  \* time.sleep, and per kind of thread how many are inside a call of the
  \* LED strip
  distances_lock, sleeping, led_writers,
  \* run: its position; MqttHandler.connect: the local attempts, and per
  \* pass of its loop the call that raised, or "ok"
  run_at, connect_attempts, connect_log,
  \* GarageClosureHandler: its red_proximity_start_time (time elapsed since
  \* it was taken), the flags passed to and returned by the latest call, and
  \* whether that call sent CLOSE
  handler_timer, handler_close_sent, handler_enabled, handler_sent

specVars == << system_enabled, user_is_home, garage_door_open, process,
           parking_procedure_active, close_command_sent,
           red_proximity_start_time, distances, ai_lock,
           red_distance_threshold, orange_distance_threshold, blinking,
           ai_thread, stop_event, object_present, blink_threads,
           pc, previous_state, bus_msg, pub_unauthorized,
           pub_process, pub_ai_detection, pub_system_enabled,
           closes_in_session, red_dwell, closure_fired >>

fnVars == << car_result, detection_results, applied >>
ledVars == << led_segments, blink_state, last_blink_time,
              pub_distance, pub_availability >>
\* state that Spec keeps abstract
orphanVars == << ai_orphan, orphan_present >>
measureVars == << sensor_index, attempts, success, measured_distance,
                  calls >>
settingsVars == << led_brightness, settings_data, settings_at,
                   settings_prior >>
lockVars == << distances_lock, sleeping, led_writers >>
connectVars == << run_at, connect_attempts, connect_log >>
handlerVars == << handler_timer, handler_close_sent, handler_enabled,
                 handler_sent >>
moreVars == << lockVars, connectVars, handlerVars >>
extVars == << callbacks, measureVars, settingsVars, moreVars >>
detailVars == << fnVars, ledVars, sub_threads, orphanVars, extVars >>

vars == << specVars, detailVars >>

ctrlVars == << system_enabled, user_is_home, garage_door_open, process,
               parking_procedure_active, close_command_sent,
               red_proximity_start_time, distances, ai_lock >>
cfgVars == << red_distance_threshold, orange_distance_threshold >>
aiVars == << ai_thread, stop_event, object_present >>
pubVars == << pub_process, pub_ai_detection, pub_system_enabled >>
histVars == << closes_in_session, red_dwell >>
gateVars == << bus_msg, pub_unauthorized >>
nonAiVars == << ctrlVars, cfgVars, blinking, blink_threads, pc,
                previous_state, gateVars, pubVars, histVars, closure_fired >>

NoDistances == [s \in Sensors |-> None]

\* the snapshots a measurement cycle can produce: any front reading, with
\* the side sensors agreeing
Snapshots == {d \in [Sensors -> Readings] : d["left"] = d["right"]}

\* ------------------------------------------------------- pure functions
\* main.py is_car_in_garage: every sensor has a reading and none is above
\* its orange threshold
SensorOrder == << "front", "left", "right" >>

AboveOrange_Inclusive(distance, orange_threshold) ==
  distance >= orange_threshold

\* is_car_in_garage: "if distance > orange_threshold"
AboveOrange(distance, orange_threshold) == distance > orange_threshold

\* is_car_in_garage: the loop over the sensors from position i on, with its
\* two early returns
RECURSIVE CarScan(_, _, _)
CarScan(d, orange, i) ==
  IF i > Len(SensorOrder)
  THEN TRUE
  ELSE LET sensor_name == SensorOrder[i]
       IN  IF d[sensor_name] = None
           THEN FALSE
           ELSE IF AboveOrange(d[sensor_name], orange[sensor_name])
                THEN FALSE
                ELSE CarScan(d, orange, i + 1)

IsCarInGarage(d, orange) == CarScan(d, orange, 1)

\* led.py set_led_segment_color: int(r * (brightness / 255)) per channel
\* (equal to the integer quotient for the brightness of config.py)
Scale(channel, brightness) == (channel * brightness) \div 255

Shade(color, brightness) ==
  << Scale(color[1], brightness), Scale(color[2], brightness),
     Scale(color[3], brightness) >>

SegmentColor_OrangeFirst(distance, red, orange) ==
  IF distance # None
  THEN Shade(IF distance <= orange THEN ORANGE
             ELSE IF distance <= red THEN RED ELSE GREEN, BRIGHTNESS)
  ELSE OFF

\* led_manager.py update_leds_based_on_distances, one segment: red first,
\* then orange, else green; dark without a reading
SegmentColor(distance, red, orange) ==
  IF distance # None
  THEN Shade(IF distance <= red THEN RED
             ELSE IF distance <= orange THEN ORANGE ELSE GREEN, BRIGHTNESS)
  ELSE OFF

\* led_manager.py update_leds_based_on_distances: every segment uses the
\* thresholds of its own sensor
UpdateLedsBasedOnDistances(d, red, orange) ==
  [s \in Sensors |-> SegmentColor(d[s], red[s], orange[s])]

MajorityVote_AtLeastHalf(results) ==
  2 * Cardinality({i \in DOMAIN results : results[i]}) >= Len(results)

\* ai_detection.py _majority_vote: sum(results) > len(results) / 2
MajorityVote(results) ==
  LET positive_detections ==
        Cardinality({i \in DOMAIN results : results[i]})
  IN  2 * positive_detections > Len(results)

\* str.upper() and str.lower() on the payloads of Messages
Upper(payload) ==
  CASE payload \in {"OPEN", "open"} -> "OPEN"
    [] payload = "CLOSE" -> "CLOSE"
    [] payload = "Stop" -> "STOP"
    [] payload \in {"on", "ON"} -> "ON"
    [] payload = "off" -> "OFF"

Lower(payload) ==
  CASE payload \in {"OPEN", "open"} -> "open"
    [] payload = "CLOSE" -> "close"
    [] payload = "Stop" -> "stop"
    [] payload \in {"on", "ON"} -> "on"
    [] payload = "off" -> "off"

\* main.py on_garage_command: "if self.user_is_home" for an OPEN command
OpenAllowed_Always(home) == TRUE

OpenAllowed(home) == home

\* main.py update_system_enabled_state: user_is_home and garage_door_open
EnabledValue_DoorOnly(home, door) == door

EnabledValue(home, door) == home /\ door

ProcessTopicValue_Idle(p) == "IDLE"

\* mqtt_handler.py publish_process: None is published as IDLE (the model
\* keeps "IDLE" for process = None)
ProcessTopicValue(p) == p

\* mqtt_handler.py publish_system_enabled
EnabledTopicValue(e) == IF e THEN "ON" ELSE "OFF"

\* a time stamp (kept as elapsed time) after one step of the clock
Older(t) ==
  IF t = None THEN None
  ELSE IF t + TimeStep >= CLOSE_DWELL THEN CLOSE_DWELL ELSE t + TimeStep

\* mutant of StartGuard: the test is missing
StartGuard_Always(active) == TRUE

\* main.py start_parking_procedure: "if not self.parking_procedure_active"
StartGuard(active) == ~active

\* main.py stop_parking_procedure: "if self.parking_procedure_active"
StopGuard(active) == active

\* mutant of ProcessFor: the branches are swapped
ProcessFor_Swapped(car_in_garage) ==
  IF car_in_garage THEN "PARKING" ELSE "EXITING"

\* main.py start_parking_procedure: the process chosen from the presence check
ProcessFor(car_in_garage) == IF car_in_garage THEN "EXITING" ELSE "PARKING"

\* mutant of StartsDetection: ai_module.start() after the if statement
StartsDetection_Always(car_in_garage) == TRUE

\* main.py start_parking_procedure: ai_module.start() only in the else branch
StartsDetection(car_in_garage) == ~car_in_garage

FrontUsable_AnyDistance(front, red) == front # None /\ red # None

\* main.py handle_automatic_garage_closure, the guard of the whole body
FrontUsable(front, red) == front # None /\ front > 0 /\ red # None

\* main.py handle_automatic_garage_closure:
\* elapsed_time >= 5 and self.process == "PARKING" ...
DwellAndProcessOk(elapsed, p) == elapsed >= CLOSE_DWELL /\ p = "PARKING"

\* mutant of FlagAllowsClose: the one-shot flag is not tested
FlagAllowsClose_Always(sent) == TRUE

\* ... and not self.close_command_sent
FlagAllowsClose(sent) == ~sent

\* mutant of FlagAfterStop: stop_parking_procedure does not reset the flag
FlagAfterStop_Kept(sent) == sent

\* main.py stop_parking_procedure: self.close_command_sent = False
FlagAfterStop(sent) == FALSE

\* main.py handle_blinking: "if self.parking_procedure_active" before the
\* restart of the detection
RestartGuard(active) == active

\* ------------------------------------------------------------- Init
InitController ==
  /\ system_enabled = FALSE
  /\ user_is_home = FALSE
  /\ garage_door_open = FALSE
  /\ process = "IDLE"
  /\ parking_procedure_active = FALSE
  /\ close_command_sent = FALSE
  /\ red_proximity_start_time = None
  /\ ai_lock = "none"
  /\ blinking = FALSE
  /\ ai_thread = "dead"
  /\ stop_event = FALSE
  /\ object_present = FALSE
  /\ blink_threads = [p \in BlinkPositions |-> 0]
  /\ pc = [t \in Threads |-> IF t = "tick" THEN "loop" ELSE "idle"]
  /\ previous_state = FALSE
  /\ bus_msg = NoMsg
  /\ pub_unauthorized = FALSE
  /\ pub_process = "none"
  /\ pub_ai_detection = "none"
  /\ pub_system_enabled = "none"
  /\ closes_in_session = 0
  /\ red_dwell = None
  /\ closure_fired = FALSE

\* main.py __init__: distances; config.py: thresholds
InitSensors ==
  /\ distances = NoDistances
  /\ red_distance_threshold = [s \in Sensors |-> RED_DEFAULT]
  /\ orange_distance_threshold = [s \in Sensors |-> ORANGE_DEFAULT]

\* LedManager.__init__ (strip dark, last_blink_time = 0 lies far in the
\* past); nothing published, no sub-detection yet
InitLeds ==
  /\ led_segments = [s \in Sensors |-> OFF]
  /\ blink_state = FALSE
  /\ last_blink_time = BLINK_PERIOD
  /\ pub_distance = [s \in Sensors |-> "none"]
  /\ pub_availability = [s \in Sensors |-> "none"]

\* AIModule.__init__: no thread
InitOrphan ==
  /\ ai_orphan = "dead"
  /\ orphan_present = FALSE

\* SensorManager: no measurement cycle in progress
InitMeasure ==
  /\ sensor_index = Len(SensorOrder) + 1
  /\ attempts = 0
  /\ success = FALSE
  /\ measured_distance = None
  /\ calls = [s \in Sensors |-> 0]

\* LedManager.__init__: the configured brightness; no settings message yet
InitSettings ==
  /\ led_brightness = BRIGHTNESS
  /\ settings_data = NoData
  /\ settings_at = [at |-> "idle", k |-> 0]
  /\ settings_prior = << >>

\* no detection run yet
\* the threads that take distances_lock or sleep inside the controller,
\* and the kinds of thread that write the LED strip
Writers == {"tick", "bus", "watch"}

\* threading.Lock(): free; no thread sleeps or writes the strip
InitLocks ==
  /\ distances_lock = "none"
  /\ sleeping = {}
  /\ led_writers = [w \in Writers |-> 0]

\* the startup is done: run is inside "while True: self.main_loop()"
InitRun ==
  /\ run_at = "main_loop"
  /\ connect_attempts = 0
  /\ connect_log = << >>

\* GarageClosureHandler.__init__: no timer; no call yet
InitHandler ==
  /\ handler_timer = None
  /\ handler_close_sent = FALSE
  /\ handler_enabled = FALSE
  /\ handler_sent = FALSE

InitExt ==
  /\ callbacks = 0
  /\ InitMeasure
  /\ InitSettings
  /\ InitLocks
  /\ InitRun
  /\ InitHandler

InitDetail ==
  /\ car_result = FALSE
  /\ detection_results = << >>
  /\ applied = {}
  /\ InitLeds
  /\ sub_threads = [i \in 1..frame_count |-> "new"]
  /\ InitOrphan
  /\ InitExt

Init == InitController /\ InitSensors /\ InitDetail

\* ------------------------------------------------- shared sub-operations
Goto(t, label) == pc' = [pc EXCEPT ![t] = label]

\* where a thread continues after stop_parking_procedure
AfterStop(t) == IF t = "bus" THEN "upd_read" ELSE "loop"

\* AIModule.start: ignored while the thread is alive, else clear the stop
\* event and start a detection thread
AIModuleStart ==
  IF ai_thread # "dead"
  THEN UNCHANGED aiVars
  ELSE /\ stop_event' = FALSE
       /\ ai_thread' = "run"
       /\ UNCHANGED object_present

\* measure_and_update_distances: under distances_lock, every sensor is
\* measured (None after the retries failed) and the snapshot is published
MeasureAndUpdateDistances ==
  \E d \in Snapshots : distances' = d

\* ------------------------------------------------------ bus thread
\* MqttHandler.on_message: the payload is decoded and handed to
\* GarageParkingAssistant.update
BusReceive ==
  /\ pc["bus"] = "idle"
  /\ \E m \in Messages : bus_msg' = m
  /\ pub_unauthorized' = FALSE
  /\ Goto("bus", "dispatch")
  /\ UNCHANGED << ctrlVars, cfgVars, blinking, aiVars, blink_threads,
                  previous_state, pubVars, histVars >>
  /\ UNCHANGED closure_fired
  /\ UNCHANGED detailVars

\* on_garage_command, command.upper() == "OPEN"
BusOpen ==
  /\ pc["bus"] = "dispatch"
  /\ bus_msg[1] = "garage_command"
  /\ Upper(bus_msg[2]) = "OPEN"
  /\ bus_msg' = NoMsg
  /\ IF OpenAllowed(user_is_home)
     THEN /\ garage_door_open' = TRUE
          /\ Goto("bus", "start_lock")
          /\ UNCHANGED pub_unauthorized
     ELSE \* publish_unauthorized_access_attempt
          /\ pub_unauthorized' = TRUE
          /\ Goto("bus", "idle")
          /\ UNCHANGED garage_door_open
  /\ UNCHANGED << system_enabled, user_is_home, process,
                  parking_procedure_active, close_command_sent,
                  red_proximity_start_time, distances, ai_lock,
                  cfgVars, blinking, aiVars, blink_threads, previous_state, pubVars, histVars >>
  /\ UNCHANGED closure_fired
  /\ UNCHANGED detailVars

\* on_garage_command, command.upper() == "CLOSE"
BusClose ==
  /\ pc["bus"] = "dispatch"
  /\ bus_msg[1] = "garage_command"
  /\ Upper(bus_msg[2]) = "CLOSE"
  /\ bus_msg' = NoMsg
  /\ garage_door_open' = FALSE
  /\ Goto("bus", "stop_lock")
  /\ UNCHANGED << system_enabled, user_is_home, process,
                  parking_procedure_active, close_command_sent,
                  red_proximity_start_time, distances, ai_lock,
                  cfgVars, blinking, aiVars, blink_threads, previous_state, pubVars, histVars,
                  pub_unauthorized >>
  /\ UNCHANGED closure_fired
  /\ UNCHANGED detailVars

\* on_garage_command, any other command: GarageParkingAssistantError is
\* raised and update() logs it
BusUnknownCommand ==
  /\ pc["bus"] = "dispatch"
  /\ bus_msg[1] = "garage_command"
  /\ Upper(bus_msg[2]) \notin {"OPEN", "CLOSE"}
  /\ bus_msg' = NoMsg
  /\ Goto("bus", "idle")
  /\ UNCHANGED << ctrlVars, cfgVars, blinking, aiVars, blink_threads,
                  previous_state, pubVars, histVars, pub_unauthorized >>
  /\ UNCHANGED closure_fired
  /\ UNCHANGED detailVars

\* on_user_status_update: self.user_is_home = status.lower() == 'on'
BusUserStatus ==
  /\ pc["bus"] = "dispatch"
  /\ bus_msg[1] = "user_status"
  /\ bus_msg' = NoMsg
  /\ user_is_home' = (Lower(bus_msg[2]) = "on")
  /\ Goto("bus", "upd_read")
  /\ UNCHANGED << system_enabled, garage_door_open, process,
                  parking_procedure_active, close_command_sent,
                  red_proximity_start_time, distances, ai_lock,
                  cfgVars, blinking, aiVars, blink_threads, previous_state, pubVars, histVars,
                  pub_unauthorized >>
  /\ UNCHANGED closure_fired
  /\ UNCHANGED detailVars

\* start_parking_procedure: "with self.ai_lock" and the test of
\* parking_procedure_active
StartLock ==
  /\ pc["bus"] = "start_lock"
  /\ ai_lock = "none"
  /\ IF StartGuard(parking_procedure_active)
     THEN /\ ai_lock' = "bus"
          /\ Goto("bus", "start_measure")
     ELSE \* "Parking procedure already active."
          /\ ai_lock' = ai_lock
          /\ Goto("bus", "upd_read")
  /\ UNCHANGED << system_enabled, user_is_home, garage_door_open, process,
                  parking_procedure_active, close_command_sent,
                  red_proximity_start_time, distances,
                  cfgVars, blinking, aiVars, blink_threads, previous_state, pubVars, histVars >>
  /\ UNCHANGED gateVars
  /\ UNCHANGED closure_fired
  /\ UNCHANGED detailVars

\* start_parking_procedure: measure_and_update_distances, then sleep(1)
StartMeasure ==
  /\ pc["bus"] = "start_measure"
  /\ MeasureAndUpdateDistances
  /\ Goto("bus", "start_decide")
  /\ UNCHANGED << system_enabled, user_is_home, garage_door_open, process,
                  parking_procedure_active, close_command_sent,
                  red_proximity_start_time, ai_lock,
                  cfgVars, blinking, aiVars, blink_threads, previous_state, pubVars, histVars >>
  /\ UNCHANGED gateVars
  /\ UNCHANGED closure_fired
  /\ UNCHANGED detailVars

\* start_parking_procedure: is_car_in_garage, self.process = ...,
\* publish_process
StartDecide ==
  /\ pc["bus"] = "start_decide"
  /\ LET car_in_garage == IsCarInGarage(distances, orange_distance_threshold)
     IN  /\ process' = ProcessFor(car_in_garage)
         /\ pub_process' = ProcessTopicValue(process')
         /\ closes_in_session' = 0
         /\ IF StartsDetection(car_in_garage)
            THEN Goto("bus", "start_ai")
            ELSE Goto("bus", "start_done")
  /\ UNCHANGED << system_enabled, user_is_home, garage_door_open,
                  parking_procedure_active, close_command_sent,
                  red_proximity_start_time, distances, ai_lock,
                  cfgVars, blinking, aiVars, blink_threads, previous_state, pub_ai_detection, pub_system_enabled,
                  red_dwell >>
  /\ UNCHANGED gateVars
  /\ UNCHANGED closure_fired
  /\ UNCHANGED detailVars

\* start_parking_procedure: self.ai_module.start()
StartAI ==
  /\ pc["bus"] = "start_ai"
  /\ AIModuleStart
  /\ Goto("bus", "start_done")
  /\ UNCHANGED << ctrlVars, cfgVars, blinking, blink_threads, previous_state, pubVars, histVars >>
  /\ UNCHANGED gateVars
  /\ UNCHANGED closure_fired
  /\ UNCHANGED detailVars

\* start_parking_procedure: self.parking_procedure_active = True, lock
\* released
StartDone ==
  /\ pc["bus"] = "start_done"
  /\ parking_procedure_active' = TRUE
  /\ ai_lock' = "none"
  /\ Goto("bus", "upd_read")
  /\ UNCHANGED << system_enabled, user_is_home, garage_door_open, process,
                  close_command_sent, red_proximity_start_time, distances,
                  cfgVars, blinking, aiVars, blink_threads, previous_state, pubVars, histVars >>
  /\ UNCHANGED gateVars
  /\ UNCHANGED closure_fired
  /\ UNCHANGED detailVars

\* update_system_enabled_state: previous_state = self.system_enabled
UpdRead ==
  /\ pc["bus"] = "upd_read"
  /\ previous_state' = system_enabled
  /\ Goto("bus", "upd_write")
  /\ UNCHANGED << ctrlVars, cfgVars, blinking, aiVars, blink_threads,
                  pubVars, histVars >>
  /\ UNCHANGED gateVars
  /\ UNCHANGED closure_fired
  /\ UNCHANGED detailVars

\* update_system_enabled_state: the assignment and the publication on a
\* change; the handler then returns (publish_garage_state for a command)
UpdWrite ==
  /\ pc["bus"] = "upd_write"
  /\ system_enabled' = EnabledValue(user_is_home, garage_door_open)
  /\ pub_system_enabled' = IF system_enabled' # previous_state
                           THEN EnabledTopicValue(system_enabled')
                           ELSE pub_system_enabled
  /\ previous_state' = FALSE
  /\ Goto("bus", "idle")
  /\ UNCHANGED << user_is_home, garage_door_open, process,
                  parking_procedure_active, close_command_sent,
                  red_proximity_start_time, distances, ai_lock,
                  cfgVars, blinking, aiVars, blink_threads, pub_process, pub_ai_detection, histVars >>
  /\ UNCHANGED gateVars
  /\ UNCHANGED closure_fired
  /\ UNCHANGED detailVars

\* ---------------------------------- stop_parking_procedure (tick or bus)
\* "with self.ai_lock", the test of parking_procedure_active,
\* parking_procedure_active = False, process = None, publish_process("IDLE")
StopLockTo(t, after) ==
  /\ pc[t] = "stop_lock"
  /\ ai_lock = "none"
  /\ IF StopGuard(parking_procedure_active)
     THEN /\ ai_lock' = t
          /\ parking_procedure_active' = FALSE
          /\ process' = "IDLE"
          /\ pub_process' = "IDLE"
          /\ Goto(t, "stop_ai")
     ELSE \* "Parking procedure not active."
          /\ UNCHANGED << ai_lock, parking_procedure_active, process,
                          pub_process >>
          /\ Goto(t, after)
  /\ UNCHANGED << system_enabled, user_is_home, garage_door_open,
                  close_command_sent, red_proximity_start_time, distances,
                  cfgVars, blinking, aiVars, blink_threads, previous_state, pub_ai_detection, pub_system_enabled,
                  histVars >>
  /\ UNCHANGED gateVars
  /\ UNCHANGED closure_fired
  /\ UNCHANGED detailVars

StopLock(t) == StopLockTo(t, AfterStop(t))

\* AIModule.stop called by another thread: set the stop event when the
\* detection thread is alive
StopAI(t) ==
  /\ pc[t] = "stop_ai"
  /\ IF ai_thread # "dead"
     THEN /\ stop_event' = TRUE
          /\ Goto(t, "stop_join")
     ELSE /\ stop_event' = stop_event
          /\ Goto(t, "stop_reset")
  /\ UNCHANGED << ctrlVars, cfgVars, blinking, ai_thread, object_present,
                  blink_threads, previous_state, pubVars,
                  histVars >>
  /\ UNCHANGED gateVars
  /\ UNCHANGED closure_fired
  /\ UNCHANGED detailVars

\* AIModule.stop: self.thread.join()
JoinReturns(thread) == thread = "dead"

StopJoin(t) ==
  /\ pc[t] = "stop_join"
  /\ JoinReturns(ai_thread)
  /\ Goto(t, "stop_reset")
  /\ UNCHANGED << ctrlVars, cfgVars, blinking, aiVars, blink_threads,
                  previous_state, pubVars, histVars >>
  /\ UNCHANGED gateVars
  /\ UNCHANGED closure_fired
  /\ UNCHANGED detailVars

\* stop_parking_procedure: close_command_sent = False,
\* red_proximity_start_time = None, publish_ai_detection("IDLE"), lock
\* released
StopResetTo(t, after) ==
  /\ pc[t] = "stop_reset"
  /\ close_command_sent' = FlagAfterStop(close_command_sent)
  /\ red_proximity_start_time' = None
  /\ pub_ai_detection' = "IDLE"
  /\ ai_lock' = "none"
  /\ Goto(t, after)
  /\ UNCHANGED << system_enabled, user_is_home, garage_door_open, process,
                  parking_procedure_active, distances,
                  cfgVars, blinking, aiVars, blink_threads, previous_state, pub_process, pub_system_enabled,
                  histVars >>
  /\ UNCHANGED gateVars
  /\ UNCHANGED closure_fired
  /\ UNCHANGED detailVars

StopReset(t) == StopResetTo(t, AfterStop(t))

\* ------------------------------------------------------ tick thread
\* main_loop: the test of system_enabled and of led_manager.is_blinking();
\* while a blink session is active only the blink toggle is driven
TickLoop ==
  /\ pc["tick"] = "loop"
  /\ IF system_enabled
     THEN IF blinking
          THEN Goto("tick", "loop")
          ELSE Goto("tick", "measure")
     ELSE Goto("tick", "dormant")
  /\ UNCHANGED << ctrlVars, cfgVars, blinking, aiVars, blink_threads,
                  previous_state, pubVars, histVars >>
  /\ UNCHANGED gateVars
  /\ closure_fired' = FALSE
  /\ UNCHANGED detailVars

\* main_loop: measure_and_update_distances
TickMeasure ==
  /\ pc["tick"] = "measure"
  /\ MeasureAndUpdateDistances
  /\ Goto("tick", "closure_eval")
  /\ UNCHANGED << system_enabled, user_is_home, garage_door_open, process,
                  parking_procedure_active, close_command_sent,
                  red_proximity_start_time, ai_lock,
                  cfgVars, blinking, aiVars, blink_threads, previous_state, pubVars, histVars >>
  /\ UNCHANGED gateVars
  /\ UNCHANGED closure_fired
  /\ UNCHANGED detailVars

\* the front distance is available and inside the red zone
InRedZone(front, red) == FrontUsable(front, red) /\ front <= red

\* handle_automatic_garage_closure: front_distance read under
\* distances_lock, the timer and the first two conjuncts of the close
\* condition
ClosureEval ==
  /\ pc["tick"] = "closure_eval"
  /\ LET front_distance == distances["front"]
         red_threshold_front == red_distance_threshold["front"]
     IN
     /\ red_dwell' = IF InRedZone(front_distance, red_threshold_front)
                     THEN (IF red_dwell = None THEN 0 ELSE red_dwell)
                     ELSE None
     /\ IF FrontUsable(front_distance, red_threshold_front)
        THEN IF front_distance <= red_threshold_front
             THEN IF red_proximity_start_time = None
                  THEN /\ red_proximity_start_time' = 0
                       /\ Goto("tick", "loop")
                  ELSE /\ red_proximity_start_time' = red_proximity_start_time
                       /\ IF DwellAndProcessOk(red_proximity_start_time,
                                               process)
                          THEN Goto("tick", "closure_flag")
                          ELSE Goto("tick", "loop")
             ELSE /\ red_proximity_start_time' = None
                  /\ Goto("tick", "loop")
        ELSE /\ red_proximity_start_time' = None
             /\ Goto("tick", "loop")
  /\ UNCHANGED << system_enabled, user_is_home, garage_door_open, process,
                  parking_procedure_active, close_command_sent, distances,
                  ai_lock, cfgVars, blinking, aiVars, blink_threads,
                  previous_state, pubVars, closes_in_session >>
  /\ UNCHANGED gateVars
  /\ UNCHANGED closure_fired
  /\ UNCHANGED detailVars

\* handle_automatic_garage_closure: "... and not self.close_command_sent"
ClosureFlag ==
  /\ pc["tick"] = "closure_flag"
  /\ IF FlagAllowsClose(close_command_sent)
     THEN Goto("tick", "closure_fire")
     ELSE Goto("tick", "loop")
  /\ UNCHANGED << ctrlVars, cfgVars, blinking, aiVars, blink_threads,
                  previous_state, pubVars, histVars >>
  /\ UNCHANGED gateVars
  /\ UNCHANGED closure_fired
  /\ UNCHANGED detailVars

\* handle_automatic_garage_closure: send_garage_command("CLOSE"),
\* close_command_sent = True, system_enabled = False, publish_system_enabled
ClosureFire ==
  /\ pc["tick"] = "closure_fire"
  /\ closes_in_session' = closes_in_session + 1
  /\ close_command_sent' = TRUE
  /\ system_enabled' = FALSE
  /\ pub_system_enabled' = EnabledTopicValue(FALSE)
  /\ Goto("tick", "loop")
  /\ UNCHANGED << user_is_home, garage_door_open, process,
                  parking_procedure_active, red_proximity_start_time,
                  distances, ai_lock, cfgVars, blinking, aiVars,
                  blink_threads, previous_state,
                  pub_process, pub_ai_detection, red_dwell >>
  /\ UNCHANGED gateVars
  /\ closure_fired' = TRUE
  /\ UNCHANGED detailVars

\* main_loop, system disabled: the snapshot is set to None and published,
\* then stop_parking_procedure
TickDormant ==
  /\ pc["tick"] = "dormant"
  /\ distances' = NoDistances
  /\ red_dwell' = None
  /\ Goto("tick", "stop_lock")
  /\ UNCHANGED << system_enabled, user_is_home, garage_door_open, process,
                  parking_procedure_active, close_command_sent,
                  red_proximity_start_time, ai_lock,
                  cfgVars, blinking, aiVars, blink_threads, previous_state, pubVars, closes_in_session >>
  /\ UNCHANGED gateVars
  /\ UNCHANGED closure_fired
  /\ UNCHANGED detailVars

\* ------------------------------------------------- detection thread
BlinkCount == blink_threads["poll"] + blink_threads["final"]
              + blink_threads["restart"] + blink_threads["spawn"]

Votes == [1..frame_count -> BOOLEAN]

\* _run_detection: the stop event is tested once; the sub-detections are
\* joined and their votes reduced
AIRun ==
  /\ ai_thread = "run"
  /\ IF ~stop_event
     THEN \E results \in Votes :
            /\ object_present' = MajorityVote(results)
            /\ object_present' => BlinkCount < MaxBlink
            /\ ai_thread' = "callback"
     ELSE /\ ai_thread' = "finish"
          /\ object_present' = object_present
  /\ UNCHANGED << ctrlVars, cfgVars, blinking, stop_event, blink_threads,
                  pc, previous_state, pubVars, histVars >>
  /\ UNCHANGED gateVars
  /\ UNCHANGED closure_fired
  /\ UNCHANGED detailVars

\* on_ai_detection, called by the detection thread
AICallback ==
  /\ ai_thread = "callback"
  /\ IF object_present
     THEN \* start_blinking, publish DETECTED, start handle_blinking
          /\ blinking' = TRUE
          /\ pub_ai_detection' = "DETECTED"
          /\ blink_threads' = [blink_threads EXCEPT !["poll"] = @ + 1]
     ELSE /\ pub_ai_detection' = "CLEAR"
          /\ UNCHANGED << blinking, blink_threads >>
  /\ ai_thread' = "finish"
  /\ object_present' = FALSE
  /\ UNCHANGED << ctrlVars, cfgVars, stop_event, pc, previous_state, pub_process, pub_system_enabled,
                  histVars >>
  /\ UNCHANGED gateVars
  /\ UNCHANGED closure_fired
  /\ UNCHANGED detailVars

\* _run_detection, finally: self.stop() by the detection thread itself sets
\* the stop event; the thread ends
AIFinish ==
  /\ ai_thread = "finish"
  /\ stop_event' = TRUE
  /\ ai_thread' = "dead"
  /\ UNCHANGED << ctrlVars, cfgVars, blinking, object_present,
                  blink_threads, pc, previous_state,
                  pubVars, histVars >>
  /\ UNCHANGED gateVars
  /\ UNCHANGED closure_fired
  /\ UNCHANGED detailVars

\* --------------------------------------- blink duration-watch threads
Move(from, to) ==
  blink_threads' = [blink_threads EXCEPT ![from] = @ - 1, ![to] = @ + 1]

Leave(from) ==
  blink_threads' = [blink_threads EXCEPT ![from] = @ - 1]

\* handle_blinking: the loop, polled before the blink duration is over
BlinkPoll ==
  /\ blink_threads["poll"] > 0
  /\ ~parking_procedure_active
  /\ Leave("poll")
  /\ UNCHANGED << ctrlVars, cfgVars, blinking, aiVars, pc, previous_state, pubVars, histVars >>
  /\ UNCHANGED gateVars
  /\ UNCHANGED closure_fired
  /\ UNCHANGED detailVars

\* handle_blinking: the loop ends after blink_duration; stop_blinking and
\* reset_leds_to_default, then sleep(0.5)
BlinkExpire ==
  /\ blink_threads["poll"] > 0
  /\ blinking' = FALSE
  /\ Move("poll", "final")
  /\ UNCHANGED << ctrlVars, cfgVars, aiVars, pc, previous_state, pubVars, histVars >>
  /\ UNCHANGED gateVars
  /\ UNCHANGED closure_fired
  /\ UNCHANGED detailVars

\* handle_blinking: "if self.parking_procedure_active"
BlinkFinal ==
  /\ blink_threads["final"] > 0
  /\ IF RestartGuard(parking_procedure_active)
     THEN Move("final", "restart")
     ELSE Leave("final")
  /\ UNCHANGED << ctrlVars, cfgVars, blinking, aiVars, pc, previous_state, pubVars, histVars >>
  /\ UNCHANGED gateVars
  /\ UNCHANGED closure_fired
  /\ UNCHANGED detailVars

\* handle_blinking: self.ai_module.start()
BlinkRestart ==
  /\ blink_threads["restart"] > 0
  /\ AIModuleStart
  /\ Leave("restart")
  /\ UNCHANGED << ctrlVars, cfgVars, blinking, pc, previous_state, pubVars, histVars >>
  /\ UNCHANGED gateVars
  /\ UNCHANGED closure_fired
  /\ UNCHANGED detailVars

\* ----------------------------------------------------------- time
\* time passes
Elapse ==
  /\ red_proximity_start_time' = Older(red_proximity_start_time)
  /\ red_dwell' = Older(red_dwell)
  /\ UNCHANGED << system_enabled, user_is_home, garage_door_open, process,
                  parking_procedure_active, close_command_sent, distances,
                  ai_lock, cfgVars, blinking, aiVars, blink_threads, pc,
                  previous_state, pubVars,
                  closes_in_session >>
  /\ UNCHANGED gateVars
  /\ UNCHANGED closure_fired
  /\ UNCHANGED detailVars

\* ------------------------------------------------------ specification
Next ==
  \/ BusReceive
  \/ BusOpen
  \/ BusClose
  \/ BusUnknownCommand
  \/ BusUserStatus
  \/ StartLock
  \/ StartMeasure
  \/ StartDecide
  \/ StartAI
  \/ StartDone
  \/ UpdRead
  \/ UpdWrite
  \/ \E t \in Threads : StopLock(t)
  \/ \E t \in Threads : StopAI(t)
  \/ \E t \in Threads : StopJoin(t)
  \/ \E t \in Threads : StopReset(t)
  \/ TickLoop
  \/ TickMeasure
  \/ ClosureEval
  \/ ClosureFlag
  \/ ClosureFire
  \/ TickDormant
  \/ AIRun
  \/ AICallback
  \/ AIFinish
  \/ BlinkPoll
  \/ BlinkExpire
  \/ BlinkFinal
  \/ BlinkRestart
  \/ Elapse

Spec == Init /\ [][Next]_vars

\* ------------------------------------------- the pure functions, applied
\* readings and thresholds around the comparisons of the two functions
FunctionReadings == {None, 0, 3, 10, 11}
FunctionThresholds == {3, 10}
VoteLists == UNION {[1..n -> BOOLEAN] : n \in 1..MaxVotes}

\* inputs: either a snapshot with per-sensor thresholds, or a list of votes
FunctionsInit ==
  /\ InitController
  /\ InitLeds
  /\ car_result = FALSE
  /\ applied = {}
  /\ sub_threads = [i \in 1..frame_count |-> "new"]
  /\ InitOrphan
  /\ InitExt
  /\ \/ /\ distances \in [Sensors -> FunctionReadings]
        /\ red_distance_threshold \in [Sensors -> FunctionThresholds]
        /\ orange_distance_threshold \in [Sensors -> FunctionThresholds]
        /\ detection_results = << >>
     \/ /\ InitSensors
        /\ detection_results \in VoteLists

\* car_in_garage = self.is_car_in_garage()
ApplyIsCarInGarage ==
  /\ "is_car_in_garage" \notin applied
  /\ car_result' = IsCarInGarage(distances, orange_distance_threshold)
  /\ applied' = applied \cup {"is_car_in_garage"}
  /\ UNCHANGED << specVars, detection_results, ledVars, sub_threads,
                  orphanVars, extVars >>

\* self.led_manager.update_leds_based_on_distances(self.distances)
ApplyUpdateLeds ==
  /\ "update_leds_based_on_distances" \notin applied
  /\ led_segments' = UpdateLedsBasedOnDistances(distances,
                        red_distance_threshold, orange_distance_threshold)
  /\ applied' = applied \cup {"update_leds_based_on_distances"}
  /\ UNCHANGED << specVars, car_result, detection_results, blink_state,
                  last_blink_time, pub_distance, pub_availability,
                  sub_threads, orphanVars, extVars >>

\* object_present = self._majority_vote(detection_results)
ApplyMajorityVote ==
  /\ "_majority_vote" \notin applied
  /\ detection_results # << >>
  /\ object_present' = MajorityVote(detection_results)
  /\ applied' = applied \cup {"_majority_vote"}
  /\ UNCHANGED << nonAiVars, ai_thread, stop_event, car_result,
                  detection_results, ledVars, sub_threads, orphanVars, extVars >>

FunctionsNext ==
  \/ ApplyIsCarInGarage
  \/ ApplyUpdateLeds
  \/ ApplyMajorityVote

SpecFunctions == FunctionsInit /\ [][FunctionsNext]_vars

TypeOK ==
  /\ system_enabled \in BOOLEAN
  /\ process \in {"IDLE", "PARKING", "EXITING"}
  /\ ai_lock \in {"none", "tick", "bus"}
  /\ ai_thread \in {"dead", "run", "launch", "join", "callback", "handler",
                   "finish"}
  /\ BlinkCount <= MaxBlink
  /\ red_proximity_start_time \in {None} \cup 0..CLOSE_DWELL
  /\ bus_msg \in Messages \cup {NoMsg}
  /\ pub_unauthorized \in BOOLEAN
  /\ closure_fired \in BOOLEAN

\* ------------------------------------------------------------- claims
\* the tick thread sends the CLOSE command in this step
CloseSent == pc["tick"] = "closure_fire" /\ pc'["tick"] # "closure_fire"

\* C1: automatic closure fires at most once per parking session: between a
\* start transition and the next transition to IDLE at most one CLOSE is
\* sent, whatever the ticks and bus events
C1_AtMostOneClosePerSession ==
  process # "IDLE" => closes_in_session <= 1

\* C1 witness: a later tick of the same PARKING session reaches the test of
\* the one-shot flag after the closure has fired
C1_Witness ==
  /\ process = "PARKING"
  /\ closes_in_session = 1
  /\ close_command_sent
  /\ pc["tick"] = "closure_flag"

\* C2: a CLOSE is sent only at the end of a period of at least CLOSE_DWELL
\* seconds in which every tick saw the front distance inside the red zone
C2_CloseOnlyAfterContinuousDwell ==
  [][CloseSent => (red_dwell # None /\ red_dwell >= CLOSE_DWELL)]_vars

\* C3: a CLOSE is sent only while the process is PARKING and
\* close_command_sent is false
C3_CloseOnlyWhileParking ==
  [][CloseSent => (process = "PARKING" /\ ~close_command_sent)]_vars

\* thread t takes a step
ThreadStep(t) == pc'[t] # pc[t]

C9_NoDetectionAfterStop ==
  (process = "IDLE" /\ ai_lock = "none") => ai_thread = "dead"

\* C10: no start of the obstacle detection takes effect while the process is
\* EXITING
C10_NoDetectionStartWhileExiting ==
  [][ (ai_thread = "dead" /\ ai_thread' # "dead") => process # "EXITING" ]_vars

\* C11: an OPEN command (in any letter case) received while the user is not
\* home leaves garage_door_open, the process, system_enabled,
\* close_command_sent and the debounce timer unchanged and publishes the
\* unauthorized access notification; a command that is neither OPEN nor
\* CLOSE leaves them unchanged and publishes nothing
C11_RejectedCommand ==
  [][ ( pc["bus"] = "dispatch" /\ ThreadStep("bus") )
      => /\ ( bus_msg[1] = "garage_command" /\ bus_msg[2] \in {"OPEN", "open"}
              /\ ~user_is_home )
            => ( /\ UNCHANGED << garage_door_open, process, system_enabled,
                                 close_command_sent, red_proximity_start_time >>
                 /\ pub_unauthorized'
                 /\ pc'["bus"] = "idle" )
         /\ ( bus_msg[1] = "garage_command"
              /\ bus_msg[2] \notin {"OPEN", "open", "CLOSE"} )
            => ( /\ UNCHANGED << garage_door_open, process, system_enabled,
                                 close_command_sent, red_proximity_start_time >>
                 /\ UNCHANGED pubVars
                 /\ ~pub_unauthorized'
                 /\ pc'["bus"] = "idle" )
    ]_vars

\* C11 witness: an OPEN has been rejected during a session that a
\* user who has left since keeps open
C11_Witness ==
  /\ pub_unauthorized
  /\ pc["bus"] = "idle"
  /\ ~user_is_home
  /\ garage_door_open
  /\ process = "PARKING"

Recomputed == pc["bus"] = "upd_write" /\ ThreadStep("bus")

C13_EdgeTriggeredPublication ==
  [][ /\ CloseSent => pub_system_enabled # "OFF"
      /\ ( Recomputed /\ system_enabled' # previous_state )
         => pub_system_enabled' # pub_system_enabled
    ]_vars

\* C14: when the closure fires the system is disabled and OFF is published,
\* and the first tick that starts afterwards takes the dormant branch, which
\* leaves the process IDLE
C14_ClosureDisablesNextTick ==
  [][ /\ CloseSent => ( ~system_enabled' /\ pub_system_enabled' = "OFF" )
      /\ ( closure_fired /\ ~closure_fired' ) => pc'["tick"] = "dormant"
      /\ ( pc["tick"] \in {"stop_lock", "stop_reset"} /\ pc'["tick"] = "loop" )
         => process' = "IDLE"
    ]_vars

\* C15: is_car_in_garage returns true exactly when all three sensors have a
\* reading and every reading is at or below the orange threshold of its
\* sensor
C15_CarInGarage ==
  "is_car_in_garage" \in applied
  => ( car_result
       <=> \A s \in Sensors : /\ distances[s] # None
                              /\ distances[s] <= orange_distance_threshold[s] )

\* C15 witness: a car is reported with one reading exactly at its threshold
\* and with thresholds that differ between the sensors
C15_Witness ==
  /\ "is_car_in_garage" \in applied
  /\ car_result
  /\ distances["left"] = orange_distance_threshold["left"]
  /\ orange_distance_threshold["front"] # orange_distance_threshold["left"]

\* C16: for a sensor with a reading d the segment is red if d is at or below
\* the red threshold, else orange if d is at or below the orange threshold,
\* else green, each sensor with its own thresholds
C16_ColourClassification ==
  "update_leds_based_on_distances" \in applied
  => \A s \in Sensors :
       LET d == distances[s]
           red == red_distance_threshold[s]
           orange == orange_distance_threshold[s]
       IN  d # None
           => /\ d <= red => led_segments[s] = << 20, 0, 0 >>
              /\ (d > red /\ d <= orange) => led_segments[s] = << 20, 12, 0 >>
              /\ (d > red /\ d > orange) => led_segments[s] = << 0, 20, 0 >>

\* C16 witness: a reading at or below both thresholds is shown red while
\* another sensor, with other thresholds, shows the same reading orange
C16_Witness ==
  /\ "update_leds_based_on_distances" \in applied
  /\ distances["front"] = 10
  /\ distances["left"] = 10
  /\ red_distance_threshold["front"] = 10
  /\ orange_distance_threshold["front"] = 10
  /\ red_distance_threshold["left"] = 3
  /\ led_segments["front"] = << 20, 0, 0 >>
  /\ led_segments["left"] = << 20, 12, 0 >>

\* C18: the majority vote is true exactly when strictly more than half of
\* the votes are true; two of three true votes give true, one of three false
C18_MajorityVote ==
  "_majority_vote" \in applied
  => LET trues == {i \in DOMAIN detection_results : detection_results[i]}
         falses == {i \in DOMAIN detection_results : ~detection_results[i]}
     IN  /\ object_present <=> Cardinality(trues) > Cardinality(falses)
         /\ detection_results = << TRUE, TRUE, FALSE >> => object_present
         /\ detection_results = << FALSE, FALSE, TRUE >> => ~object_present
         /\ detection_results = << TRUE, FALSE, FALSE >> => ~object_present

\* C18 witness: a tie of two against two has been reduced to false
C18_Witness ==
  /\ "_majority_vote" \in applied
  /\ detection_results = << TRUE, FALSE, FALSE, TRUE >>
  /\ ~object_present

\* --------------------------------- the LED strip and the distance topics
\* A session in PARKING with the system enabled, projected on the LED
\* manager and on the distance publications: the tick thread, the callback
\* of the detection thread and the blink duration-watch thread.

\* mqtt_handler.py publish_distances: str(distance)
Str(distance) == << "str", distance >>

\* the state after an accepted OPEN whose measurement found no sensor
\* available: PARKING, detection started, strip dark, all sensors offline
LedInit ==
  /\ system_enabled = TRUE
  /\ user_is_home = TRUE
  /\ garage_door_open = TRUE
  /\ process = "PARKING"
  /\ parking_procedure_active = TRUE
  /\ close_command_sent = FALSE
  /\ red_proximity_start_time = None
  /\ ai_lock = "none"
  /\ blinking = FALSE
  /\ ai_thread = "run"
  /\ stop_event = FALSE
  /\ object_present = FALSE
  /\ blink_threads = [p \in BlinkPositions |-> 0]
  /\ pc = [t \in Threads |-> IF t = "tick" THEN "loop" ELSE "idle"]
  /\ previous_state = FALSE
  /\ bus_msg = NoMsg
  /\ pub_unauthorized = FALSE
  /\ pub_process = "PARKING"
  /\ pub_ai_detection = "none"
  /\ pub_system_enabled = "ON"
  /\ closes_in_session = 0
  /\ red_dwell = None
  /\ closure_fired = FALSE
  /\ InitSensors
  /\ car_result = FALSE
  /\ detection_results = << >>
  /\ applied = {}
  /\ led_segments = [s \in Sensors |-> OFF]
  /\ blink_state = FALSE
  /\ last_blink_time = BLINK_PERIOD
  /\ pub_distance = [s \in Sensors |-> "none"]
  /\ pub_availability = [s \in Sensors |-> "offline"]
  /\ sub_threads = [i \in 1..frame_count |-> "new"]
  /\ InitOrphan
  /\ InitExt

\* what the LED actions leave alone
ledRest == << system_enabled, user_is_home, garage_door_open, process,
              parking_procedure_active, close_command_sent,
              red_proximity_start_time, ai_lock, cfgVars, aiVars,
              previous_state, gateVars, pub_process, pub_system_enabled,
              histVars, closure_fired, fnVars, sub_threads, orphanVars, extVars >>

\* led_manager.py update_leds
UpdateLeds(d) ==
  IF blinking
  THEN IF last_blink_time >= BLINK_PERIOD
       THEN /\ last_blink_time' = 0
            /\ blink_state' = ~blink_state
            /\ led_segments' = IF blink_state'
                               THEN [s \in Sensors |-> Shade(BLUE, BRIGHTNESS)]
                               ELSE [s \in Sensors |-> OFF]
       ELSE UNCHANGED << last_blink_time, blink_state, led_segments >>
  ELSE /\ led_segments' = UpdateLedsBasedOnDistances(d,
                             red_distance_threshold, orange_distance_threshold)
       /\ UNCHANGED << last_blink_time, blink_state >>

\* mqtt_handler.py publish_distances
PublishDistances(d) ==
  /\ pub_distance' = [s \in Sensors |->
                        IF d[s] # None THEN Str(d[s]) ELSE "none"]
  /\ pub_availability' = [s \in Sensors |->
                            IF d[s] # None THEN "online" ELSE "offline"]

\* main_loop, system enabled: is_blinking selects the blink update or the
\* measurement
LedTickLoop ==
  /\ pc["tick"] = "loop"
  /\ IF blinking
     THEN /\ UpdateLeds(distances)
          /\ UNCHANGED pc
     ELSE /\ Goto("tick", "measure")
          /\ UNCHANGED << led_segments, blink_state, last_blink_time >>
  /\ UNCHANGED << ledRest, distances, blinking, blink_threads,
                  pub_ai_detection, pub_distance, pub_availability >>

\* measure_and_update_distances: measure_distances, update_leds,
\* publish_distances under distances_lock
LedTickMeasure ==
  /\ pc["tick"] = "measure"
  /\ \E d \in [Sensors -> Readings] :
       /\ distances' = d
       /\ UpdateLeds(d)
       /\ PublishDistances(d)
  /\ Goto("tick", "loop")
  /\ UNCHANGED << ledRest, blinking, blink_threads, pub_ai_detection >>

\* on_ai_detection(True): start_blinking, publish DETECTED, start the
\* duration-watch thread
LedStartBlinking ==
  /\ BlinkCount < MaxBlink
  /\ IF ~blinking
     THEN /\ blinking' = TRUE
          /\ last_blink_time' = 0
          /\ blink_state' = FALSE
     ELSE UNCHANGED << blinking, last_blink_time, blink_state >>
  /\ pub_ai_detection' = "DETECTED"
  /\ blink_threads' = [blink_threads EXCEPT !["poll"] = @ + 1]
  /\ UNCHANGED << ledRest, distances, pc, led_segments, pub_distance,
                  pub_availability >>

\* handle_blinking after the blink duration: stop_blinking (the strip is
\* cleared), reset_leds_to_default(self.distances)
LedStopBlinking ==
  /\ blink_threads["poll"] > 0
  /\ blinking' = FALSE
  /\ led_segments' = UpdateLedsBasedOnDistances(distances,
                        red_distance_threshold, orange_distance_threshold)
  /\ blink_threads' = [blink_threads EXCEPT !["poll"] = @ - 1]
  /\ UNCHANGED << ledRest, distances, pc, blink_state, last_blink_time,
                  pub_ai_detection, pub_distance, pub_availability >>

\* the blink period passes
LedElapse ==
  /\ last_blink_time < BLINK_PERIOD
  /\ last_blink_time' = BLINK_PERIOD
  /\ UNCHANGED << ledRest, distances, pc, blinking, blink_threads,
                  led_segments, blink_state, pub_ai_detection, pub_distance,
                  pub_availability >>

LedNext ==
  \/ LedTickLoop
  \/ LedTickMeasure
  \/ LedStartBlinking
  \/ LedStopBlinking
  \/ LedElapse

SpecLed == LedInit /\ [][LedNext]_vars

\* ------------------------------ the detection run with its sub-detections
\* The bus thread, the blink duration-watch threads and the detection
\* thread, whose run is split into the test of the stop event, the staggered
\* launches, the sub-detections and the join with the vote.

\* states of a sub-detection thread that has appended its vote
Completed == {"detected", "clear", "failed"}

\* _capture_and_process_frame: the vote appended for an outcome
\* (obstacle_detected, or False in both except branches)
SubVote(outcome) == outcome = "detected"

AllJoined_Any(subs) == TRUE

\* _run_detection: "for thread in threads: thread.join()"
AllJoined(subs) == \A i \in DOMAIN subs : subs[i] \in Completed

\* _run_detection: SharedCamera.get_instance() (CameraError leads to
\* callback(False)), detection_results = [], the test of the stop event
RunBegin ==
  /\ ai_thread = "run"
  /\ detection_results' = << >>
  /\ sub_threads' = [i \in 1..frame_count |-> "new"]
  /\ \E camera_ok \in BOOLEAN :
       IF camera_ok
       THEN /\ ai_thread' = IF stop_event THEN "finish" ELSE "launch"
            /\ UNCHANGED object_present
       ELSE /\ ai_thread' = "callback"
            /\ object_present' = FALSE
  /\ UNCHANGED << nonAiVars, stop_event, car_result, applied, ledVars,
                  orphanVars, extVars >>

\* _run_detection: thread.start() of the next sub-detection, sleep(0.1)
RunLaunch ==
  /\ ai_thread = "launch"
  /\ LET i == CHOOSE k \in 1..frame_count :
                 /\ sub_threads[k] = "new"
                 /\ \A j \in 1..(k - 1) : sub_threads[j] # "new"
     IN  /\ sub_threads' = [sub_threads EXCEPT ![i] = "started"]
         /\ ai_thread' = IF i = frame_count THEN "join" ELSE "launch"
  /\ UNCHANGED << nonAiVars, stop_event, object_present, fnVars, ledVars,
                  orphanVars, extVars >>

\* _capture_and_process_frame of sub-detection i: an obstacle, none, or a
\* failure of the capture or of the classification
RunSub(i) ==
  /\ sub_threads[i] = "started"
  /\ \E outcome \in Completed :
       /\ outcome = "detected" => BlinkCount < MaxBlink
       /\ sub_threads' = [sub_threads EXCEPT ![i] = outcome]
       /\ detection_results' = Append(detection_results, SubVote(outcome))
  /\ UNCHANGED << specVars, car_result, applied, ledVars, orphanVars, extVars >>

\* _run_detection: the joins, then object_present = _majority_vote(...)
RunReduce ==
  /\ ai_thread = "join"
  /\ AllJoined(sub_threads)
  /\ object_present' = MajorityVote(detection_results)
  /\ ai_thread' = "callback"
  /\ UNCHANGED << nonAiVars, stop_event, detailVars >>

RunNext ==
  \/ BusReceive
  \/ BusOpen
  \/ BusClose
  \/ BusUnknownCommand
  \/ BusUserStatus
  \/ StartLock
  \/ StartMeasure
  \/ StartDecide
  \/ StartAI
  \/ StartDone
  \/ UpdRead
  \/ UpdWrite
  \/ StopLock("bus")
  \/ StopAI("bus")
  \/ StopJoin("bus")
  \/ StopReset("bus")
  \/ RunBegin
  \/ RunLaunch
  \/ \E i \in 1..frame_count : RunSub(i)
  \/ RunReduce
  \/ AICallback
  \/ AIFinish
  \/ BlinkPoll
  \/ BlinkExpire
  \/ BlinkFinal
  \/ BlinkRestart

SpecRun == Init /\ [][RunNext]_vars

\* ------------------------------- AIModule.start, test and spawn apart
\* The bus thread, the blink duration-watch threads and the detection
\* threads, with AIModule.start split into its test of
\* self.thread.is_alive() and the creation of the thread.  self.thread
\* refers to the thread created last (ai_thread); a thread that is still
\* alive when self.thread is overwritten goes on as ai_orphan.

\* what the steps of the orphaned thread and of the split start leave alone
startRest == << fnVars, ledVars, sub_threads, extVars >>

\* AIModule.start, else branch: stop_event.clear(), self.thread =
\* Thread(...), self.thread.start(); one orphaned thread is followed
Spawn ==
  /\ ai_thread # "dead" => ai_orphan = "dead"
  /\ stop_event' = FALSE
  /\ IF ai_thread # "dead"
     THEN /\ ai_orphan' = ai_thread
          /\ orphan_present' = object_present
          /\ object_present' = FALSE
     ELSE UNCHANGED << orphanVars, object_present >>
  /\ ai_thread' = "run"

\* start_parking_procedure: self.ai_module.start(), the test
StartAICheck ==
  /\ pc["bus"] = "start_ai"
  /\ IF ai_thread # "dead"
     THEN Goto("bus", "start_done")
     ELSE Goto("bus", "start_spawn")
  /\ UNCHANGED << ctrlVars, cfgVars, blinking, aiVars, blink_threads,
                  previous_state, gateVars, pubVars, histVars, closure_fired,
                  detailVars >>

\* start_parking_procedure: self.ai_module.start(), the spawn
StartAISpawn ==
  /\ pc["bus"] = "start_spawn"
  /\ Spawn
  /\ Goto("bus", "start_done")
  /\ UNCHANGED << ctrlVars, cfgVars, blinking, blink_threads,
                  previous_state, gateVars, pubVars, histVars, closure_fired,
                  startRest >>

\* handle_blinking: self.ai_module.start(), the test
BlinkRestartCheck ==
  /\ blink_threads["restart"] > 0
  /\ IF ai_thread # "dead"
     THEN Leave("restart")
     ELSE Move("restart", "spawn")
  /\ UNCHANGED << ctrlVars, cfgVars, blinking, pc, previous_state, gateVars,
                  pubVars, histVars, closure_fired, aiVars, detailVars >>

\* handle_blinking: self.ai_module.start(), the spawn
BlinkSpawn ==
  /\ blink_threads["spawn"] > 0
  /\ Spawn
  /\ Leave("spawn")
  /\ UNCHANGED << ctrlVars, cfgVars, blinking, pc, previous_state, gateVars,
                  pubVars, histVars, closure_fired, startRest >>

\* _run_detection of the orphaned thread
OrphanRun ==
  /\ ai_orphan = "run"
  /\ IF ~stop_event
     THEN \E results \in Votes :
            /\ orphan_present' = MajorityVote(results)
            /\ orphan_present' => BlinkCount < MaxBlink
            /\ ai_orphan' = "callback"
     ELSE /\ ai_orphan' = "finish"
          /\ UNCHANGED orphan_present
  /\ UNCHANGED << specVars, startRest >>

\* on_ai_detection, called by the orphaned thread
OrphanCallback ==
  /\ ai_orphan = "callback"
  /\ IF orphan_present
     THEN /\ blinking' = TRUE
          /\ pub_ai_detection' = "DETECTED"
          /\ blink_threads' = [blink_threads EXCEPT !["poll"] = @ + 1]
     ELSE /\ pub_ai_detection' = "CLEAR"
          /\ UNCHANGED << blinking, blink_threads >>
  /\ ai_orphan' = "finish"
  /\ orphan_present' = FALSE
  /\ UNCHANGED << ctrlVars, cfgVars, aiVars, pc, previous_state, gateVars,
                  pub_process, pub_system_enabled, histVars, closure_fired,
                  startRest >>

\* _run_detection, finally: self.stop() by the orphaned thread: when
\* self.thread is alive the stop event is set and self.thread is joined
OrphanFinish ==
  /\ ai_orphan = "finish"
  /\ IF ai_thread # "dead"
     THEN /\ stop_event' = TRUE
          /\ ai_orphan' = "join"
     ELSE /\ ai_orphan' = "dead"
          /\ UNCHANGED stop_event
  /\ UNCHANGED << nonAiVars, ai_thread, object_present, orphan_present,
                  startRest >>

\* the orphaned thread returns from self.thread.join() and ends
OrphanJoin ==
  /\ ai_orphan = "join"
  /\ JoinReturns(ai_thread)
  /\ ai_orphan' = "dead"
  /\ UNCHANGED << specVars, orphan_present, startRest >>

StartNext ==
  \/ BusReceive
  \/ BusOpen
  \/ BusClose
  \/ BusUnknownCommand
  \/ BusUserStatus
  \/ StartLock
  \/ StartMeasure
  \/ StartDecide
  \/ StartAICheck
  \/ StartAISpawn
  \/ StartDone
  \/ UpdRead
  \/ UpdWrite
  \/ StopLock("bus")
  \/ StopAI("bus")
  \/ StopJoin("bus")
  \/ StopReset("bus")
  \/ AIRun
  \/ AICallback
  \/ AIFinish
  \/ OrphanRun
  \/ OrphanCallback
  \/ OrphanFinish
  \/ OrphanJoin
  \/ BlinkPoll
  \/ BlinkExpire
  \/ BlinkFinal
  \/ BlinkRestartCheck
  \/ BlinkSpawn

SpecStart == Init /\ [][StartNext]_vars

\* C17: in every measure-and-publish cycle, a sensor without a reading has
\* its segment dark and is published offline with no distance value, and a
\* sensor with a reading is published online with its distance
C17_AbsentReadingOffline ==
  [][ ( pc["tick"] = "measure" /\ pc'["tick"] = "loop" )
      => \A s \in Sensors :
           /\ distances'[s] = None
              => ( /\ led_segments'[s] = << 0, 0, 0 >>
                   /\ pub_availability'[s] = "offline"
                   /\ pub_distance'[s] = "none" )
           /\ distances'[s] # None
              => ( /\ pub_availability'[s] = "online"
                   /\ pub_distance'[s] = Str(distances'[s]) )
    ]_vars

\* C19 as stated: every run of the detection thread launches exactly
\* frame_count sub-detections and ends with exactly frame_count votes, one
\* per sub-detection
C19_ThreeVotesEveryRun ==
  ai_thread = "finish"
  => ( /\ \A i \in 1..frame_count : sub_threads[i] \in Completed
       /\ Len(detection_results) = frame_count )

\* the step in which the detection thread reduces the votes
VoteReduced == ai_thread = "join" /\ ai_thread' = "callback"

\* C19 amended: a run that finds the stop event clear and obtains the camera
\* launches exactly frame_count sub-detections; the vote is reduced only
\* after all of them have completed, over exactly frame_count votes, one per
\* sub-detection, a failed sub-detection having appended false; any other
\* run launches none and reduces no vote
C19_ThreeVotesWhenReduced ==
  /\ [][ /\ VoteReduced
            => ( /\ \A i \in 1..frame_count : sub_threads[i] \in Completed
                 /\ Len(detection_results) = 3
                 /\ Cardinality({k \in 1..Len(detection_results) :
                                   detection_results[k]})
                    = Cardinality({i \in 1..frame_count :
                                     sub_threads[i] = "detected"}) )
         /\ \A i \in 1..frame_count :
              ( sub_threads[i] = "started" /\ sub_threads'[i] # "started" )
              => ( /\ Len(detection_results') = Len(detection_results) + 1
                   /\ sub_threads'[i] # "detected"
                      => ~detection_results'[Len(detection_results')] )
       ]_vars
  /\ []( ai_thread \in {"callback", "finish"}
         => \/ \A i \in 1..frame_count : sub_threads[i] = "new"
            \/ /\ \A i \in 1..frame_count : sub_threads[i] \in Completed
               /\ Len(detection_results) = 3 )

\* C19 witness: the vote has been reduced to true although the first
\* sub-detection launched failed and appended its false vote last
C19_Witness ==
  /\ ai_thread = "callback"
  /\ object_present
  /\ sub_threads[1] = "failed"
  /\ detection_results = << TRUE, TRUE, FALSE >>

\* C20: at most one detection run is in progress at any time, whatever
\* threads call start and stop
C20_AtMostOneRun ==
  ~( ai_thread # "dead" /\ ai_orphan # "dead" )

\* ---------------------------- the detection run with a callback that fails
\* The bus thread, the blink duration-watch threads and the detection
\* thread, whose callback can raise: on_ai_detection re-raises every error
\* of start_blinking, publish_ai_detection and Thread.start.

\* where on_ai_detection can fail for a vote
Failures(detected) ==
  IF detected THEN {"none", "publish", "spawn"} ELSE {"none", "publish"}

\* on_ai_detection: start_blinking, publish DETECTED and start
\* handle_blinking, or publish CLEAR; what precedes the failure has happened
OnAiDetection(detected, failure) ==
  IF detected
  THEN /\ blinking' = TRUE
       /\ pub_ai_detection' = IF failure = "publish" THEN pub_ai_detection
                              ELSE "DETECTED"
       /\ blink_threads' = IF failure = "none"
                           THEN [blink_threads EXCEPT !["poll"] = @ + 1]
                           ELSE blink_threads
  ELSE /\ pub_ai_detection' = IF failure = "publish" THEN pub_ai_detection
                              ELSE "CLEAR"
       /\ UNCHANGED << blinking, blink_threads >>

\* _run_detection up to the callback: the camera (CameraError leads to the
\* handler), the test of the stop event, the vote
DetectBegin ==
  /\ ai_thread = "run"
  /\ callbacks' = 0
  /\ \E camera_ok \in BOOLEAN :
       IF ~camera_ok
       THEN /\ ai_thread' = "handler"
            /\ object_present' = FALSE
       ELSE IF stop_event
            THEN /\ ai_thread' = "finish"
                 /\ UNCHANGED object_present
            ELSE \E results \in Votes :
                   /\ object_present' = MajorityVote(results)
                   /\ object_present' => BlinkCount < MaxBlink
                   /\ ai_thread' = "callback"
  /\ UNCHANGED << nonAiVars, stop_event, fnVars, ledVars, sub_threads,
                  orphanVars, measureVars, settingsVars, moreVars >>

\* _run_detection: self.callback(object_present) inside the try; an error
\* of the callback is caught by "except Exception"
CallbackTry ==
  /\ ai_thread = "callback"
  /\ callbacks' = callbacks + 1
  /\ \E failure \in Failures(object_present) :
       /\ OnAiDetection(object_present, failure)
       /\ ai_thread' = IF failure = "none" THEN "finish" ELSE "handler"
  /\ object_present' = FALSE
  /\ UNCHANGED << ctrlVars, cfgVars, stop_event, pc, previous_state,
                  gateVars, pub_process, pub_system_enabled, histVars,
                  closure_fired, fnVars, ledVars, sub_threads, orphanVars,
                  measureVars, settingsVars, moreVars >>

\* _run_detection: self.callback(False) in an except branch; an error of
\* this call leaves the thread through the finally clause
CallbackHandler ==
  /\ ai_thread = "handler"
  /\ callbacks' = callbacks + 1
  /\ \E failure \in Failures(FALSE) : OnAiDetection(FALSE, failure)
  /\ ai_thread' = "finish"
  /\ UNCHANGED << ctrlVars, cfgVars, stop_event, object_present, pc,
                  previous_state, gateVars, pub_process, pub_system_enabled,
                  histVars, closure_fired, fnVars, ledVars, sub_threads,
                  orphanVars, measureVars, settingsVars, moreVars >>

CallbackNext ==
  \/ BusReceive
  \/ BusOpen
  \/ BusClose
  \/ BusUnknownCommand
  \/ BusUserStatus
  \/ StartLock
  \/ StartMeasure
  \/ StartDecide
  \/ StartAI
  \/ StartDone
  \/ UpdRead
  \/ UpdWrite
  \/ StopLock("bus")
  \/ StopAI("bus")
  \/ StopJoin("bus")
  \/ StopReset("bus")
  \/ DetectBegin
  \/ CallbackTry
  \/ CallbackHandler
  \/ AIFinish
  \/ BlinkPoll
  \/ BlinkExpire
  \/ BlinkFinal
  \/ BlinkRestart

SpecCallback == Init /\ [][CallbackNext]_vars

\* C21: a detection run never invokes the callback twice, also when the
\* callback itself fails
C21_CallbackNeverTwice ==
  callbacks <= 1

\* ------------------------------ the main loop with the strip and the topics
\* A session in PARKING with the system enabled and no further bus message:
\* the tick thread with all its branches, the detection thread and the blink
\* duration-watch threads, with the LED strip and the distance publications
\* of every step.  The automatic closure disables the system.

\* main_loop: the test of system_enabled and of led_manager.is_blinking()
LoopTest ==
  /\ pc["tick"] = "loop"
  /\ IF system_enabled
     THEN IF blinking
          THEN Goto("tick", "blink")
          ELSE Goto("tick", "measure")
     ELSE Goto("tick", "dormant")
  /\ closure_fired' = FALSE
  /\ UNCHANGED << ctrlVars, cfgVars, blinking, aiVars, blink_threads,
                  previous_state, gateVars, pubVars, histVars, detailVars >>

\* main_loop, blink session active: led_manager.update_leds(self.distances)
\* and nothing else
LoopBlink ==
  /\ pc["tick"] = "blink"
  /\ UpdateLeds(distances)
  /\ Goto("tick", "loop")
  /\ UNCHANGED << ledRest, distances, blinking, blink_threads,
                  pub_ai_detection, pub_distance, pub_availability >>

LoopMeasure_NoClosure ==
  /\ pc["tick"] = "measure"
  /\ \E d \in [Sensors -> Readings] :
       /\ distances' = d
       /\ UpdateLeds(d)
       /\ PublishDistances(d)
  /\ Goto("tick", "loop")
  /\ UNCHANGED << ledRest, blinking, blink_threads, pub_ai_detection >>

\* main_loop: measure_and_update_distances (measure_distances, update_leds,
\* publish_distances under distances_lock)
LoopMeasure ==
  /\ pc["tick"] = "measure"
  /\ \E d \in [Sensors -> Readings] :
       /\ distances' = d
       /\ UpdateLeds(d)
       /\ PublishDistances(d)
  /\ Goto("tick", "closure_eval")
  /\ UNCHANGED << ledRest, blinking, blink_threads, pub_ai_detection >>

\* main_loop, system disabled: under distances_lock the snapshot is replaced
\* by one without readings and published; stop_parking_procedure follows
LoopDormant ==
  /\ pc["tick"] = "dormant"
  /\ distances' = NoDistances
  /\ PublishDistances(NoDistances)
  /\ red_dwell' = None
  /\ Goto("tick", "stop_lock")
  /\ UNCHANGED << system_enabled, user_is_home, garage_door_open, process,
                  parking_procedure_active, close_command_sent,
                  red_proximity_start_time, ai_lock, cfgVars, blinking,
                  aiVars, blink_threads, previous_state, gateVars, pubVars,
                  closes_in_session, closure_fired, fnVars, led_segments,
                  blink_state, last_blink_time, sub_threads, orphanVars,
                  extVars >>

LoopClear_Keep ==
  /\ pc["tick"] = "clear"
  /\ Goto("tick", "loop")
  /\ UNCHANGED << ledRest, distances, blinking, blink_threads,
                  pub_ai_detection, ledVars >>

\* main_loop, system disabled: led_manager.clear_leds() after
\* stop_parking_procedure
LoopClear ==
  /\ pc["tick"] = "clear"
  /\ led_segments' = [s \in Sensors |-> OFF]
  /\ Goto("tick", "loop")
  /\ UNCHANGED << ledRest, distances, blinking, blink_threads,
                  pub_ai_detection, blink_state, last_blink_time,
                  pub_distance, pub_availability >>

\* on_ai_detection, called by the detection thread: start_blinking, publish
\* DETECTED and start handle_blinking, or publish CLEAR
LoopCallback ==
  /\ ai_thread = "callback"
  /\ IF object_present
     THEN /\ IF ~blinking
             THEN /\ blinking' = TRUE
                  /\ last_blink_time' = 0
                  /\ blink_state' = FALSE
             ELSE UNCHANGED << blinking, last_blink_time, blink_state >>
          /\ pub_ai_detection' = "DETECTED"
          /\ blink_threads' = [blink_threads EXCEPT !["poll"] = @ + 1]
     ELSE /\ pub_ai_detection' = "CLEAR"
          /\ UNCHANGED << blinking, last_blink_time, blink_state,
                          blink_threads >>
  /\ ai_thread' = "finish"
  /\ object_present' = FALSE
  /\ UNCHANGED << ctrlVars, cfgVars, stop_event, pc, previous_state,
                  gateVars, pub_process, pub_system_enabled, histVars,
                  closure_fired, fnVars, led_segments, pub_distance,
                  pub_availability, sub_threads, orphanVars, extVars >>

\* handle_blinking: the loop ends after blink_duration; stop_blinking (the
\* strip is cleared), reset_leds_to_default(self.distances), sleep(0.5)
LoopBlinkExpire ==
  /\ blink_threads["poll"] > 0
  /\ blinking' = FALSE
  /\ led_segments' = UpdateLedsBasedOnDistances(distances,
                        red_distance_threshold, orange_distance_threshold)
  /\ Move("poll", "final")
  /\ UNCHANGED << ledRest, distances, pc, blink_state, last_blink_time,
                  pub_ai_detection, pub_distance, pub_availability >>

\* time passes: a blink period, or a step of the dwell timers as well
LoopElapse ==
  /\ last_blink_time' = BLINK_PERIOD
  /\ \E long \in BOOLEAN :
       IF long
       THEN /\ red_proximity_start_time' = Older(red_proximity_start_time)
            /\ red_dwell' = Older(red_dwell)
       ELSE UNCHANGED << red_proximity_start_time, red_dwell >>
  /\ UNCHANGED << system_enabled, user_is_home, garage_door_open, process,
                  parking_procedure_active, close_command_sent, distances,
                  ai_lock, cfgVars, blinking, aiVars, blink_threads, pc,
                  previous_state, gateVars, pubVars, closes_in_session,
                  closure_fired, fnVars, led_segments, blink_state,
                  pub_distance, pub_availability, sub_threads, orphanVars,
                  extVars >>

LoopNext ==
  \/ LoopTest
  \/ LoopBlink
  \/ LoopMeasure
  \/ ClosureEval
  \/ ClosureFlag
  \/ ClosureFire
  \/ LoopDormant
  \/ StopLockTo("tick", "clear")
  \/ StopAI("tick")
  \/ StopJoin("tick")
  \/ StopResetTo("tick", "clear")
  \/ LoopClear
  \/ AIRun
  \/ LoopCallback
  \/ AIFinish
  \/ BlinkPoll
  \/ LoopBlinkExpire
  \/ BlinkFinal
  \/ BlinkRestart
  \/ LoopElapse

SpecLoop == LedInit /\ [][LoopNext]_vars

\* the positions of the tick thread inside a tick that found the system
\* disabled
DormantPositions ==
  {"dormant", "stop_lock", "stop_ai", "stop_join", "stop_reset", "clear"}

\* the tick thread takes a step
TickStep == pc'["tick"] # pc["tick"]

C23_BlinkTickPublishesUnavailable ==
  [][ ( pc["tick"] = "blink" /\ TickStep )
      => ( /\ UNCHANGED distances
           /\ \A s \in Sensors : pub_availability'[s] = "offline" )
    ]_vars

C25_NoBlinkSessionWhenIdle ==
  ( /\ process = "IDLE"
    /\ ai_lock = "none"
    /\ ai_thread = "dead"
    /\ BlinkCount = 0 )
  => ~blinking

\* ------------------------------------ measure_distances and its retry loop
\* One thread inside SensorManager.measure_distances, cycle after cycle;
\* every call of sensor.measure_distance returns a distance or raises
\* SensorError (the driver wraps every other error into it).

max_attempts == 3

\* the distances measure_distance can return
Measured == Readings \ {None}

\* what the measurement steps leave alone
measureRest == << system_enabled, user_is_home, garage_door_open, process,
                  parking_procedure_active, close_command_sent,
                  red_proximity_start_time, ai_lock, cfgVars, blinking,
                  aiVars, blink_threads, pc, previous_state, gateVars,
                  pubVars, histVars, closure_fired, fnVars, ledVars,
                  sub_threads, orphanVars, callbacks, settingsVars,
                  moreVars >>

\* the snapshot left by an earlier cycle is any one
MeasureInit ==
  /\ InitController
  /\ distances \in [Sensors -> Readings]
  /\ red_distance_threshold = [s \in Sensors |-> RED_DEFAULT]
  /\ orange_distance_threshold = [s \in Sensors |-> ORANGE_DEFAULT]
  /\ InitDetail

MayRetry_Once(ok, n) == ~ok /\ n < 1

\* "while not success and attempts < max_attempts"
MayRetry(ok, n) == ~ok /\ n < max_attempts

\* the locals at the top of the loop over self.sensors
FreshLocals ==
  /\ attempts' = 0
  /\ success' = FALSE
  /\ measured_distance' = None

\* measure_distances is called: the first sensor
MeasureBegin ==
  /\ sensor_index = Len(SensorOrder) + 1
  /\ sensor_index' = 1
  /\ FreshLocals
  /\ calls' = [s \in Sensors |-> 0]
  /\ UNCHANGED << measureRest, distances >>

\* one pass of the retry loop: sensor.measure_distance() returns a value,
\* or raises SensorError (attempts += 1, sleep)
MeasureAttempt ==
  /\ sensor_index <= Len(SensorOrder)
  /\ MayRetry(success, attempts)
  /\ calls' = [calls EXCEPT ![SensorOrder[sensor_index]] = @ + 1]
  /\ \E failed \in BOOLEAN :
       IF failed
       THEN /\ attempts' = attempts + 1
            /\ UNCHANGED << success, measured_distance >>
       ELSE /\ \E d \in Measured : measured_distance' = d
            /\ success' = TRUE
            /\ UNCHANGED attempts
  /\ UNCHANGED << measureRest, distances, sensor_index >>

\* after the retry loop: distances[sensor_name] = None or the measured
\* distance; the next sensor
MeasureRecord ==
  /\ sensor_index <= Len(SensorOrder)
  /\ ~MayRetry(success, attempts)
  /\ distances' = [distances EXCEPT ![SensorOrder[sensor_index]] =
                     IF ~success THEN None ELSE measured_distance]
  /\ sensor_index' = sensor_index + 1
  /\ FreshLocals
  /\ UNCHANGED << measureRest, calls >>

MeasureNext ==
  \/ MeasureBegin
  \/ MeasureAttempt
  \/ MeasureRecord

SpecMeasure == MeasureInit /\ [][MeasureNext]_vars

\* C26: a failed measurement is retried; a sensor is recorded absent only
\* after 3 failed attempts and is never measured more than 3 times in a
\* cycle; a successful attempt has its value recorded; the failure of one
\* sensor changes no other sensor's reading and the cycle goes on to
\* measure every sensor
C26_SensorRetry ==
  /\ [] ( \A s \in Sensors : calls[s] <= 3 )
  /\ [][ /\ calls' # calls /\ sensor_index' = sensor_index
            => ( /\ UNCHANGED distances
                 /\ ~success'
                    => ( /\ attempts' = attempts + 1
                         /\ attempts' = calls'[SensorOrder[sensor_index]] ) )
         /\ sensor_index' = sensor_index + 1
            => LET s == SensorOrder[sensor_index]
               IN  /\ distances'[s] = None <=> ( calls[s] = 3 /\ ~success )
                   /\ success => ( /\ distances'[s] = measured_distance
                                   /\ measured_distance # None )
                   /\ calls[s] \in 1..3
                   /\ \A o \in Sensors \ {s} : distances'[o] = distances[o]
         /\ sensor_index' = Len(SensorOrder) + 1
            => \A s \in Sensors : calls'[s] \in 1..3
       ]_vars

\* C26 witness: in one cycle the front sensor failed three times and is
\* recorded absent, the left sensor succeeded on its third attempt and has
\* its value recorded, and the right sensor still has its earlier reading
C26_Witness ==
  /\ sensor_index = 3
  /\ calls = [front |-> 3, left |-> 3, right |-> 0]
  /\ distances = [front |-> None, left |-> 2, right |-> 50]

\* ------------------------------------------------ the settings handler
\* The bus thread inside update_settings, message after message, with the
\* controller idle or in a PARKING session.

\* update_thresholds: the loops over colours and sensors, in order
ThresholdOrder ==
  << << "red", "front" >>, << "red", "left" >>, << "red", "right" >>,
     << "orange", "front" >>, << "orange", "left" >>,
     << "orange", "right" >> >>

\* update_thresholds: f"{color}_distance_threshold_{sensor}"
ThresholdKey(color, sensor) ==
  CASE color = "red" /\ sensor = "front" -> "red_distance_threshold_front"
    [] color = "red" /\ sensor = "left" -> "red_distance_threshold_left"
    [] color = "red" /\ sensor = "right" -> "red_distance_threshold_right"
    [] color = "orange" /\ sensor = "front"
         -> "orange_distance_threshold_front"
    [] color = "orange" /\ sensor = "left"
         -> "orange_distance_threshold_left"
    [] color = "orange" /\ sensor = "right"
         -> "orange_distance_threshold_right"

\* the keys and values of the JSON objects received: a number or null
InputKeys == {"red_distance_threshold_front",
              "orange_distance_threshold_left", "brightness"}
SettingValues == {5, None}

\* the JSON texts received
InputTexts == {"red_distance_threshold_left", "dim"}

\* payloads: no JSON at all, a JSON number, a JSON list, a JSON string, a
\* JSON object
Payloads ==
  {[kind |-> c, text |-> "", fields |-> NoFields] :
     c \in {"invalid", "number", "list"}}
  \cup {[kind |-> "string", text |-> t, fields |-> NoFields] :
          t \in InputTexts}
  \cup {[kind |-> "object", text |-> "", fields |-> f] :
          f \in UNION {[D -> SettingValues] : D \in SUBSET InputKeys}}

\* the settings the claim is about, and the controller state
CurrentSettings ==
  << red_distance_threshold, orange_distance_threshold, led_brightness,
     process, system_enabled >>

\* what the settings handler leaves alone
settingsRest == << ctrlVars, blinking, aiVars, blink_threads, pc,
                   previous_state, gateVars, pubVars, histVars,
                   closure_fired, fnVars, ledVars, sub_threads, orphanVars,
                   callbacks, measureVars, moreVars >>

SettingsInit == Init \/ LedInit

At(position) == [at |-> position, k |-> 0]

\* update: topic == MQTT_TOPICS["settings"], update_settings(payload)
SettingsReceive ==
  /\ settings_at = At("idle")
  /\ \E p \in Payloads : settings_data' = p
  /\ settings_prior' = CurrentSettings
  /\ settings_at' = At("parse")
  /\ UNCHANGED << settingsRest, cfgVars, led_brightness >>

\* update_settings: data = json.loads(payload)
SettingsParse ==
  /\ settings_at = At("parse")
  /\ settings_at' = IF settings_data.kind = "invalid"
                    THEN At("failed")
                    ELSE [at |-> "thresholds", k |-> 1]
  /\ UNCHANGED << settingsRest, cfgVars, led_brightness, settings_data,
                  settings_prior >>

\* "key in data": TypeError for a number, false for a list, a substring
\* test for a string, membership for an object
KeyInData(data, key) ==
  CASE data.kind = "number" -> "TypeError"
    [] data.kind = "list" -> "False"
    [] data.kind = "string" -> IF data.text = key THEN "True" ELSE "False"
    [] data.kind = "object" -> IF key \in DOMAIN data.fields
                               THEN "True" ELSE "False"

\* update_thresholds: one pass of the inner loop; data[key] of a string
\* raises TypeError
SettingsThreshold ==
  /\ settings_at.at = "thresholds"
  /\ LET color == ThresholdOrder[settings_at.k][1]
         sensor == ThresholdOrder[settings_at.k][2]
         key == ThresholdKey(color, sensor)
         found == KeyInData(settings_data, key)
         next == IF settings_at.k = Len(ThresholdOrder)
                 THEN At("brightness")
                 ELSE [at |-> "thresholds", k |-> settings_at.k + 1]
     IN  IF found = "TypeError"
            \/ ( found = "True" /\ settings_data.kind = "string" )
         THEN /\ settings_at' = At("failed")
              /\ UNCHANGED cfgVars
         ELSE /\ settings_at' = next
              /\ IF found = "True"
                 THEN IF color = "red"
                      THEN /\ red_distance_threshold' =
                                [red_distance_threshold EXCEPT ![sensor] =
                                   settings_data.fields[key]]
                           /\ UNCHANGED orange_distance_threshold
                      ELSE /\ orange_distance_threshold' =
                                [orange_distance_threshold EXCEPT ![sensor] =
                                   settings_data.fields[key]]
                           /\ UNCHANGED red_distance_threshold
                 ELSE UNCHANGED cfgVars
  /\ UNCHANGED << settingsRest, led_brightness, settings_data,
                  settings_prior >>

BrightnessAccepted_Validated(value) == value # None

\* led_manager.py update_brightness: self.brightness = brightness, whatever
\* the value
BrightnessAccepted(value) == TRUE

\* update_settings: data.get("brightness", self.led_manager.brightness)
\* (AttributeError unless data is an object), update_brightness
SettingsBrightness ==
  /\ settings_at = At("brightness")
  /\ IF settings_data.kind # "object"
     THEN /\ settings_at' = At("failed")
          /\ UNCHANGED led_brightness
     ELSE LET value == IF "brightness" \in DOMAIN settings_data.fields
                       THEN settings_data.fields["brightness"]
                       ELSE led_brightness
          IN  IF BrightnessAccepted(value)
              THEN /\ led_brightness' = value
                   /\ settings_at' = At("done")
              ELSE /\ settings_at' = At("failed")
                   /\ UNCHANGED led_brightness
  /\ UNCHANGED << settingsRest, cfgVars, settings_data, settings_prior >>

\* update_settings returns, or raises GarageParkingAssistantError, which
\* update logs
SettingsReturn ==
  /\ settings_at.at \in {"done", "failed"}
  /\ settings_at' = At("idle")
  /\ settings_data' = NoData
  /\ UNCHANGED << settingsRest, cfgVars, led_brightness, settings_prior >>

SettingsNext ==
  \/ SettingsReceive
  \/ SettingsParse
  \/ SettingsThreshold
  \/ SettingsBrightness
  \/ SettingsReturn

SpecSettings == SettingsInit /\ [][SettingsNext]_vars

\* C27: when update_settings fails to parse or to apply a payload, every
\* red and orange threshold and the brightness have the values they had
\* when the message arrived, and the process and system_enabled as well
C27_RejectedSettingsRetained ==
  settings_at.at = "failed" => CurrentSettings = settings_prior

\* C27 witness: a JSON list has gone through the whole threshold loop and
\* failed at the brightness, after an earlier message had changed a
\* threshold and the brightness
C27_Witness ==
  /\ settings_at.at = "failed"
  /\ settings_data.kind = "list"
  /\ red_distance_threshold["front"] = 5
  /\ led_brightness = 5
  /\ process = "PARKING"

\* -------------------------------- one evaluation of the closure check
\* The tick thread at the entry of handle_automatic_garage_closure, for
\* front distances around the red threshold, with and without a red
\* threshold for the front sensor, in every process state.

\* front readings: none, zero, below, at and above the red threshold
ClosureReadings == {None, 0, 2, 3, 4}

ClosureInit ==
  /\ system_enabled = TRUE
  /\ user_is_home = TRUE
  /\ garage_door_open = TRUE
  /\ process \in {"IDLE", "PARKING", "EXITING"}
  /\ parking_procedure_active = (process # "IDLE")
  /\ close_command_sent \in BOOLEAN
  /\ red_proximity_start_time \in {None, 0, CLOSE_DWELL}
  /\ ai_lock = "none"
  /\ blinking = FALSE
  /\ ai_thread = "dead"
  /\ stop_event = FALSE
  /\ object_present = FALSE
  /\ blink_threads = [p \in BlinkPositions |-> 0]
  /\ pc = [t \in Threads |-> IF t = "tick" THEN "closure_eval" ELSE "idle"]
  /\ previous_state = FALSE
  /\ bus_msg = NoMsg
  /\ pub_unauthorized = FALSE
  /\ pub_process = ProcessTopicValue(process)
  /\ pub_ai_detection = "none"
  /\ pub_system_enabled = "ON"
  /\ closes_in_session = 0
  /\ red_dwell = red_proximity_start_time
  /\ closure_fired = FALSE
  /\ \E front \in ClosureReadings :
       distances = [s \in Sensors |-> IF s = "front" THEN front ELSE None]
  /\ \E red \in {None, RED_DEFAULT} :
       red_distance_threshold = [s \in Sensors |-> red]
  /\ orange_distance_threshold = [s \in Sensors |-> ORANGE_DEFAULT]
  /\ InitDetail

ClosureNext ==
  \/ ClosureEval
  \/ ClosureFlag
  \/ ClosureFire

SpecClosure == ClosureInit /\ [][ClosureNext]_vars

\* C28: an evaluation of the closure check that finds the front distance
\* unavailable or not positive, no red threshold for the front sensor, or
\* the front distance above the red threshold clears the debounce timer and
\* does nothing else: no CLOSE is sent and close_command_sent,
\* system_enabled and the process are unchanged
C28_NoCloseWithoutRedFront ==
  [][ ( /\ pc["tick"] = "closure_eval"
        /\ TickStep
        /\ LET front == distances["front"]
               red == red_distance_threshold["front"]
           IN  \/ front = None
               \/ front <= 0
               \/ red = None
               \/ front > red )
      => ( /\ red_proximity_start_time' = None
           /\ pc'["tick"] = "loop"
           /\ UNCHANGED << close_command_sent, system_enabled, process,
                           parking_procedure_active, closes_in_session,
                           pubVars, distances, cfgVars >> )
    ]_vars

\* C28 witness: the closure check has been evaluated in PARKING with a
\* front distance of zero and a red threshold configured: the tick is back
\* at its loop with the timer cleared and nothing sent
C28_Witness ==
  /\ pc["tick"] = "loop"
  /\ distances["front"] = 0
  /\ red_distance_threshold["front"] = RED_DEFAULT
  /\ process = "PARKING"
  /\ red_proximity_start_time = None
  /\ closes_in_session = 0
  /\ system_enabled

\* C29: after the first publication on the system-enabled topic, whenever
\* the bus thread is in no handler and the tick thread is between two
\* ticks, the value published last corresponds to system_enabled
C29_PublishedEnabledMatches ==
  ( /\ pub_system_enabled # "none"
    /\ pc["bus"] = "idle"
    /\ pc["tick"] = "loop" )
  => pub_system_enabled = EnabledTopicValue(system_enabled)

C31_SnapshotKeptUntilDecision ==
  [][ pc["bus"] = "start_decide" => distances' = distances ]_vars

\* ------------------------------- distances_lock, the sleeps and the strip
\* The PARKING session of the main loop again, with measure_and_update_-
\* distances taken apart: the acquisition of distances_lock, measure_-
\* distances up to its last sleep, the call of the LED strip, the
\* publication and the release; the strip calls of the blink branch and of
\* the duration-watch thread have a beginning and an end.

\* what the steps inside measure_and_update_distances leave alone
lockRest == << system_enabled, user_is_home, garage_door_open, process,
               parking_procedure_active, close_command_sent,
               red_proximity_start_time, ai_lock, cfgVars, blinking, aiVars,
               blink_threads, previous_state, gateVars, pub_process,
               pub_ai_detection, pub_system_enabled, histVars,
               closure_fired, fnVars, sub_threads, orphanVars, callbacks,
               settingsVars, connectVars, handlerVars >>

\* a call of the strip by a thread of kind w begins, ends
WriteBegins(w) == led_writers' = [led_writers EXCEPT ![w] = @ + 1]
WriteEnds(w) == led_writers' = [led_writers EXCEPT ![w] = @ - 1]

\* measure_and_update_distances: "with self.distances_lock"
LockAcquire ==
  /\ pc["tick"] = "measure"
  /\ distances_lock = "none"
  /\ distances_lock' = "tick"
  /\ Goto("tick", "sensing")
  /\ UNCHANGED << lockRest, distances, ledVars, measureVars, sleeping,
                  led_writers >>

\* measure_distances: the entry of every sensor has been assigned and the
\* thread is in the time.sleep(0.05) that ends the cycle
LockMeasure ==
  /\ pc["tick"] = "sensing"
  /\ \E d \in [Sensors -> Readings] : distances' = d
  /\ sleeping' = sleeping \cup {"tick"}
  /\ Goto("tick", "sensed")
  /\ UNCHANGED << lockRest, ledVars, measureVars, distances_lock,
                  led_writers >>

\* time.sleep returns
LockWake ==
  /\ "tick" \in sleeping
  /\ sleeping' = sleeping \ {"tick"}
  /\ UNCHANGED << lockRest, distances, ledVars, pc, measureVars,
                  distances_lock, led_writers >>

\* measure_and_update_distances: measure_distances has returned and
\* led_manager.update_leds is called
LockLedsBegin ==
  /\ pc["tick"] = "sensed"
  /\ "tick" \notin sleeping
  /\ WriteBegins("tick")
  /\ Goto("tick", "leds")
  /\ UNCHANGED << lockRest, distances, ledVars, measureVars,
                  distances_lock, sleeping >>

\* update_leds returns
LockLedsEnd ==
  /\ pc["tick"] = "leds"
  /\ UpdateLeds(distances)
  /\ WriteEnds("tick")
  /\ Goto("tick", "publish")
  /\ UNCHANGED << lockRest, distances, pub_distance, pub_availability,
                  measureVars, distances_lock, sleeping >>

\* measure_and_update_distances: publish_distances, and the end of the
\* with block
LockPublish ==
  /\ pc["tick"] = "publish"
  /\ PublishDistances(distances)
  /\ distances_lock' = "none"
  /\ Goto("tick", "closure_eval")
  /\ UNCHANGED << lockRest, distances, led_segments, blink_state,
                  last_blink_time, measureVars, sleeping, led_writers >>

\* main_loop, blink session active: led_manager.update_leds(self.distances)
\* is called, with no lock
BlinkWriteBegin ==
  /\ pc["tick"] = "blink"
  /\ WriteBegins("tick")
  /\ Goto("tick", "blink_write")
  /\ UNCHANGED << lockRest, distances, ledVars, measureVars,
                  distances_lock, sleeping >>

\* update_leds returns
BlinkWriteEnd ==
  /\ pc["tick"] = "blink_write"
  /\ UpdateLeds(distances)
  /\ WriteEnds("tick")
  /\ Goto("tick", "loop")
  /\ UNCHANGED << lockRest, distances, pub_distance, pub_availability,
                  measureVars, distances_lock, sleeping >>

\* handle_blinking: the loop ends after blink_duration; stop_blinking sets
\* blinking to False and calls clear_leds, with no lock
WatchExpire ==
  /\ blink_threads["poll"] > 0
  /\ blinking' = FALSE
  /\ WriteBegins("watch")
  /\ Move("poll", "final")
  /\ UNCHANGED << system_enabled, user_is_home, garage_door_open, process,
                  parking_procedure_active, close_command_sent,
                  red_proximity_start_time, ai_lock, cfgVars, aiVars,
                  previous_state, gateVars, pubVars, histVars,
                  closure_fired, fnVars, sub_threads, orphanVars, callbacks,
                  settingsVars, connectVars, handlerVars, distances,
                  ledVars, pc,
                  measureVars, distances_lock, sleeping >>

\* handle_blinking: reset_leds_to_default(self.distances) has followed
\* clear_leds and returns; sleep(0.5)
WatchWritten ==
  /\ led_writers["watch"] > 0
  /\ led_segments' = UpdateLedsBasedOnDistances(distances,
                        red_distance_threshold, orange_distance_threshold)
  /\ WriteEnds("watch")
  /\ UNCHANGED << lockRest, distances, blink_state, last_blink_time,
                  pub_distance, pub_availability, pc, measureVars,
                  distances_lock, sleeping >>

\* handle_blinking: "if self.parking_procedure_active", by a thread whose
\* strip calls have returned
WatchFinal ==
  /\ led_writers["watch"] < blink_threads["final"]
  /\ BlinkFinal

LocksNext ==
  \/ LoopTest
  \/ BlinkWriteBegin
  \/ BlinkWriteEnd
  \/ LockAcquire
  \/ LockMeasure
  \/ LockWake
  \/ LockLedsBegin
  \/ LockLedsEnd
  \/ LockPublish
  \/ ClosureEval
  \/ ClosureFlag
  \/ ClosureFire
  \/ LoopDormant
  \/ StopLockTo("tick", "clear")
  \/ StopAI("tick")
  \/ StopJoin("tick")
  \/ StopResetTo("tick", "clear")
  \/ LoopClear
  \/ AIRun
  \/ LoopCallback
  \/ AIFinish
  \/ BlinkPoll
  \/ WatchExpire
  \/ WatchWritten
  \/ WatchFinal
  \/ BlinkRestart
  \/ LoopElapse

SpecLocks == LedInit /\ [][LocksNext]_vars

\* C32: no thread is suspended in a sleep while it holds distances_lock
C32_NoSleepUnderDistancesLock ==
  \A t \in Threads : ~ ( distances_lock = t /\ t \in sleeping )

\* C33: at any time at most one thread is inside a call of the LED strip
C33_SingleLedWriter ==
  led_writers["tick"] + led_writers["bus"] + led_writers["watch"] <= 1

\* ----------------------------------------------- run and MqttHandler.connect
\* The program from the call of run: setup_sensors, connect with its retry
\* loop, start_flask_app, the capture of the background frame, the main
\* loop with no bus message delivered, and the cleanup of the finally
\* clause.

connect_max_attempts == 5

\* what a pass of the loop of connect can end with: the call that raised,
\* or "ok" when client.connect, client.subscribe and client.loop_start have
\* all returned
ConnectOutcomes == {"ok", "connect", "subscribe", "loop_start"}

\* what the startup steps leave alone
runRest == << specVars, fnVars, ledVars, sub_threads, orphanVars, callbacks,
              measureVars, settingsVars, lockVars, handlerVars >>

\* the state after construction, run not yet called
ConnectInit ==
  /\ InitController
  /\ InitSensors
  /\ car_result = FALSE
  /\ detection_results = << >>
  /\ applied = {}
  /\ InitLeds
  /\ sub_threads = [i \in 1..frame_count |-> "new"]
  /\ InitOrphan
  /\ callbacks = 0
  /\ InitMeasure
  /\ InitSettings
  /\ InitLocks
  /\ InitHandler
  /\ run_at = "setup"
  /\ connect_attempts = 0
  /\ connect_log = << >>

\* run: self.sensor_manager.setup_sensors() returns, or raises SensorError
RunSetup ==
  /\ run_at = "setup"
  /\ \E failed \in BOOLEAN :
       run_at' = IF failed THEN "cleanup" ELSE "connect"
  /\ UNCHANGED << runRest, connect_attempts, connect_log >>

ConnectRetry_Inclusive(n) == n <= connect_max_attempts

\* connect: "while attempts < max_attempts"
ConnectRetry(n) == n < connect_max_attempts

\* connect, one pass of the loop: the three calls return and connect
\* returns, or one of them raises: attempts += 1, time.sleep(2)
ConnectAttempt ==
  /\ run_at = "connect"
  /\ ConnectRetry(connect_attempts)
  /\ \E outcome \in ConnectOutcomes :
       /\ connect_log' = Append(connect_log, outcome)
       /\ IF outcome = "ok"
          THEN /\ run_at' = "flask"
               /\ UNCHANGED connect_attempts
          ELSE /\ connect_attempts' = connect_attempts + 1
               /\ UNCHANGED run_at
  /\ UNCHANGED runRest

\* connect: the loop is left and MQTTError is raised; run logs it in
\* "except GarageParkingAssistantError" and goes to its finally clause
ConnectGiveUp ==
  /\ run_at = "connect"
  /\ ~ConnectRetry(connect_attempts)
  /\ run_at' = "cleanup"
  /\ UNCHANGED << runRest, connect_attempts, connect_log >>

\* run: self.start_flask_app() returns, or raises
RunFlask ==
  /\ run_at = "flask"
  /\ \E failed \in BOOLEAN :
       run_at' = IF failed THEN "cleanup" ELSE "background"
  /\ UNCHANGED << runRest, connect_attempts, connect_log >>

\* run: self.capture_and_set_background_frame() returns, or raises (the
\* method is defined in none of the files)
RunBackground ==
  /\ run_at = "background"
  /\ \E failed \in BOOLEAN :
       run_at' = IF failed THEN "cleanup" ELSE "main_loop"
  /\ UNCHANGED << runRest, connect_attempts, connect_log >>

\* run: "while True: self.main_loop()", the steps of a tick
RunTest == run_at = "main_loop" /\ LoopTest
RunDormant == run_at = "main_loop" /\ LoopDormant
RunStop == run_at = "main_loop" /\ StopLockTo("tick", "clear")
RunClear == run_at = "main_loop" /\ LoopClear

\* run: KeyboardInterrupt between two ticks
RunInterrupt ==
  /\ run_at = "main_loop"
  /\ pc["tick"] = "loop"
  /\ run_at' = "cleanup"
  /\ UNCHANGED << runRest, connect_attempts, connect_log >>

\* run, finally: stop_parking_procedure (nothing is active), clear_leds,
\* disconnect, cleanup
RunCleanup ==
  /\ run_at = "cleanup"
  /\ led_segments' = [s \in Sensors |-> OFF]
  /\ run_at' = "ended"
  /\ UNCHANGED << specVars, fnVars, blink_state, last_blink_time,
                  pub_distance, pub_availability, sub_threads, orphanVars,
                  callbacks, measureVars, settingsVars, lockVars,
                  handlerVars,
                  connect_attempts, connect_log >>

ConnectNext ==
  \/ RunSetup
  \/ ConnectAttempt
  \/ ConnectGiveUp
  \/ RunFlask
  \/ RunBackground
  \/ RunTest
  \/ RunDormant
  \/ RunStop
  \/ RunClear
  \/ RunInterrupt
  \/ RunCleanup

SpecConnect == ConnectInit /\ [][ConnectNext]_vars

\* the passes of connect that raised
FailedAttempts == { i \in 1..Len(connect_log) : connect_log[i] # "ok" }

\* C34: connect makes at most 5 attempts; only the last one can have
\* succeeded, and connect returns on it at once; once 5 attempts have failed
\* no further attempt is made, connect raises and run goes to its cleanup:
\* the main loop is not entered
C34_ConnectTerminates ==
  /\ [] ( /\ Len(connect_log) <= 5
          /\ connect_attempts = Cardinality(FailedAttempts)
          /\ \A i \in 1..Len(connect_log) :
               connect_log[i] = "ok" => i = Len(connect_log)
          /\ Cardinality(FailedAttempts) = 5
             => run_at \in {"connect", "cleanup", "ended"} )
  /\ [][ /\ ( connect_log' # connect_log
              /\ connect_log'[Len(connect_log')] = "ok" )
            => ( run_at = "connect" /\ run_at' = "flask" )
         /\ ( run_at = "connect" /\ run_at' # run_at
              /\ Cardinality(FailedAttempts) = 5 )
            => ( run_at' = "cleanup" /\ connect_log' = connect_log )
         /\ ( run_at # "connect" => connect_log' = connect_log )
       ]_vars

\* C34 witness: five attempts have failed, each of the three calls at least
\* once, connect has raised and run has ended without entering the main loop
C34_Witness ==
  /\ Len(connect_log) = 5
  /\ \A o \in ConnectOutcomes \ {"ok"} :
       \E i \in 1..5 : connect_log[i] = o
  /\ "ok" \notin { connect_log[i] : i \in 1..5 }
  /\ run_at = "ended"
  /\ pc["tick"] = "loop"

\* --------------------------------------------------- one accepted OPEN
\* The program up to and after its first accepted OPEN command: the user's
\* arrival and OPEN commands are delivered until an OPEN has been accepted,
\* and no message after that.

\* the bus thread receives a message while no OPEN has been accepted
OpenReceive ==
  /\ pc["bus"] = "idle"
  /\ ~garage_door_open
  /\ \E m \in { << "user_status", "on" >>, << "garage_command", "OPEN" >> } :
       bus_msg' = m
  /\ pub_unauthorized' = FALSE
  /\ Goto("bus", "dispatch")
  /\ UNCHANGED << ctrlVars, cfgVars, blinking, aiVars, blink_threads,
                  previous_state, pubVars, histVars, closure_fired,
                  detailVars >>

OpenNext ==
  \/ OpenReceive
  \/ BusOpen
  \/ BusUserStatus
  \/ StartLock
  \/ StartMeasure
  \/ StartDecide
  \/ StartAI
  \/ StartDone
  \/ UpdRead
  \/ UpdWrite
  \/ StopLock("tick")
  \/ StopAI("tick")
  \/ StopJoin("tick")
  \/ StopReset("tick")
  \/ TickLoop
  \/ TickMeasure
  \/ ClosureEval
  \/ ClosureFlag
  \/ ClosureFire
  \/ TickDormant
  \/ AIRun
  \/ AICallback
  \/ AIFinish
  \/ BlinkPoll
  \/ BlinkExpire
  \/ BlinkFinal
  \/ BlinkRestart
  \/ Elapse

SpecOpen == Init /\ [][OpenNext]_vars

\* C35: once an OPEN command has been accepted and its handler has
\* returned, with no later message and no automatic closure, the process is
\* PARKING or EXITING and the system is enabled
C35_AcceptedOpenKept ==
  ( /\ garage_door_open
    /\ pc["bus"] = "idle"
    /\ closes_in_session = 0 )
  => ( process \in {"PARKING", "EXITING"} /\ system_enabled )

\* ------------------------------------------------ the locks and the join
\* The tick thread, the bus thread, the detection thread and the blink
\* duration-watch threads with both locks: distances_lock is taken and
\* released in separate steps around measure_and_update_distances, and the
\* short sections under it (the presence check, the read of the closure
\* handler, the reset of the dormant tick) wait for it to be free.

\* what the steps around distances_lock leave alone
waitRest == << system_enabled, user_is_home, garage_door_open, process,
               parking_procedure_active, close_command_sent,
               red_proximity_start_time, ai_lock, cfgVars, blinking, aiVars,
               blink_threads, previous_state, gateVars, pubVars, histVars,
               closure_fired, fnVars, ledVars, sub_threads, orphanVars,
               callbacks, measureVars, settingsVars, sleeping, led_writers,
               connectVars, handlerVars >>

\* the user's arrival and the door commands
WaitMessages ==
  { << "user_status", "on" >>, << "garage_command", "OPEN" >>,
    << "garage_command", "CLOSE" >> }

WaitReceive ==
  /\ pc["bus"] = "idle"
  /\ \E m \in WaitMessages : bus_msg' = m
  /\ pub_unauthorized' = FALSE
  /\ Goto("bus", "dispatch")
  /\ UNCHANGED << ctrlVars, cfgVars, blinking, aiVars, blink_threads,
                  previous_state, pubVars, histVars, closure_fired,
                  detailVars >>

\* where a thread is about to call measure_and_update_distances, is inside
\* its with block, and continues after it
BeforeMeasure(t) == IF t = "tick" THEN "measure" ELSE "start_measure"
InsideMeasure(t) == IF t = "tick" THEN "measuring" ELSE "start_measuring"
AfterMeasure(t) == IF t = "tick" THEN "closure_eval" ELSE "start_decide"

\* measure_and_update_distances: "with self.distances_lock"
WaitAcquire(t) ==
  /\ pc[t] = BeforeMeasure(t)
  /\ distances_lock = "none"
  /\ distances_lock' = t
  /\ Goto(t, InsideMeasure(t))
  /\ UNCHANGED << waitRest, distances >>

\* measure_and_update_distances: the body and the end of the with block
WaitMeasure(t) ==
  /\ pc[t] = InsideMeasure(t)
  /\ MeasureAndUpdateDistances
  /\ distances_lock' = "none"
  /\ Goto(t, AfterMeasure(t))
  /\ UNCHANGED waitRest

\* is_car_in_garage, handle_automatic_garage_closure and the dormant branch
\* of main_loop: "with self.distances_lock" around a read or an assignment
WaitDecide == distances_lock = "none" /\ StartDecide
WaitClosureEval == distances_lock = "none" /\ ClosureEval
WaitDormant == distances_lock = "none" /\ TickDormant

CallbackGuard_Locked(lock) == lock = "none"

\* on_ai_detection takes no lock: the callback runs whoever holds ai_lock
CallbackGuard(lock) == TRUE

WaitCallback == CallbackGuard(ai_lock) /\ AICallback

WaitNext ==
  \/ WaitReceive
  \/ BusOpen
  \/ BusClose
  \/ BusUserStatus
  \/ StartLock
  \/ \E t \in Threads : WaitAcquire(t)
  \/ \E t \in Threads : WaitMeasure(t)
  \/ WaitDecide
  \/ StartAI
  \/ StartDone
  \/ UpdRead
  \/ UpdWrite
  \/ \E t \in Threads : StopLock(t)
  \/ \E t \in Threads : StopAI(t)
  \/ \E t \in Threads : StopJoin(t)
  \/ \E t \in Threads : StopReset(t)
  \/ TickLoop
  \/ WaitClosureEval
  \/ ClosureFlag
  \/ ClosureFire
  \/ WaitDormant
  \/ AIRun
  \/ WaitCallback
  \/ AIFinish
  \/ BlinkPoll
  \/ BlinkExpire
  \/ BlinkFinal
  \/ BlinkRestart
  \/ Elapse

SpecWait == Init /\ [][WaitNext]_vars

\* the positions whose next step takes ai_lock, takes distances_lock
GuardEntries == {"start_lock", "stop_lock"}
DistancesEntries ==
  {"measure", "start_measure", "start_decide", "closure_eval", "dormant"}

\* the thread that thread t is waiting for: the holder of the lock it is
\* about to take, the detection thread ("ai") it joins, or "none"
WaitsFor(t) ==
  IF t \in Threads
  THEN IF pc[t] \in GuardEntries /\ ai_lock \notin {"none", t}
       THEN ai_lock
       ELSE IF pc[t] \in DistancesEntries
               /\ distances_lock \notin {"none", t}
            THEN distances_lock
            ELSE IF pc[t] = "stop_join" /\ ~JoinReturns(ai_thread)
                 THEN "ai"
                 ELSE "none"
  ELSE IF t = "ai" /\ ai_thread = "callback" /\ ~CallbackGuard(ai_lock)
       THEN ai_lock
       ELSE "none"

\* the detection thread can take a step
DetectionCanStep == ENABLED ( AIRun \/ WaitCallback \/ AIFinish )

\* C36: no thread waits for a thread that waits, directly or through a
\* third one, for it; ai_lock is never taken by a thread that holds
\* distances_lock; and while a thread is in the join of AIModule.stop,
\* holding ai_lock, the detection thread has ended or can take its next step
C36_DeadlockFree ==
  /\ [] ( \A t \in Threads \cup {"ai"} :
            WaitsFor(WaitsFor(WaitsFor(t))) = "none" )
  /\ [] ( \A t \in Threads :
            pc[t] = "stop_join"
            => ( /\ ai_lock = t
                 /\ JoinReturns(ai_thread) \/ DetectionCanStep ) )
  /\ [][ \A t \in Threads :
           ( ai_lock' = t /\ ai_lock # t ) => distances_lock # t ]_vars
  /\ [] ( \A t \in Threads :
            distances_lock = t => pc[t] = InsideMeasure(t) )

\* C36 witness: the bus thread, holding ai_lock, is in the join of
\* AIModule.stop while the detection thread is about to call the callback,
\* and the tick thread is waiting for ai_lock in stop_parking_procedure
C36_Witness ==
  /\ pc["bus"] = "stop_join"
  /\ ai_lock = "bus"
  /\ ai_thread = "callback"
  /\ pc["tick"] = "stop_lock"
  /\ WaitsFor("tick") = "bus"
  /\ WaitsFor("bus") = "ai"

\* C37: at every step that takes the process out of IDLE, the close-debounce
\* timer is unset and close_command_sent is false
C37_SessionStartsClean ==
  [][ ( process = "IDLE" /\ process' # "IDLE" )
      => ( red_proximity_start_time' = None /\ ~close_command_sent' ) ]_vars

\* ------------------------------------------------- fair scheduling
\* The program with the user's arrival and the door commands as its only
\* messages, and every thread scheduled fairly: a thread that can take a
\* step again and again takes one; time passes; no message has to arrive.

ResumeNext ==
  \/ WaitReceive
  \/ BusOpen
  \/ BusClose
  \/ BusUserStatus
  \/ StartLock
  \/ StartMeasure
  \/ StartDecide
  \/ StartAI
  \/ StartDone
  \/ UpdRead
  \/ UpdWrite
  \/ \E t \in Threads : StopLock(t)
  \/ \E t \in Threads : StopAI(t)
  \/ \E t \in Threads : StopJoin(t)
  \/ \E t \in Threads : StopReset(t)
  \/ TickLoop
  \/ TickMeasure
  \/ ClosureEval
  \/ ClosureFlag
  \/ ClosureFire
  \/ TickDormant
  \/ AIRun
  \/ AICallback
  \/ AIFinish
  \/ BlinkPoll
  \/ BlinkExpire
  \/ BlinkFinal
  \/ BlinkRestart
  \/ Elapse

\* the steps of the tick thread (run: "while True: self.main_loop()")
TickActions ==
  \/ TickLoop
  \/ TickMeasure
  \/ ClosureEval
  \/ ClosureFlag
  \/ ClosureFire
  \/ TickDormant
  \/ StopLock("tick")
  \/ StopAI("tick")
  \/ StopJoin("tick")
  \/ StopReset("tick")

\* the steps of the bus thread inside a handler
HandlerActions ==
  \/ BusOpen
  \/ BusClose
  \/ BusUserStatus
  \/ StartLock
  \/ StartMeasure
  \/ StartDecide
  \/ StartAI
  \/ StartDone
  \/ UpdRead
  \/ UpdWrite
  \/ StopLock("bus")
  \/ StopAI("bus")
  \/ StopJoin("bus")
  \/ StopReset("bus")

\* the steps of the detection thread and of the duration-watch threads
DetectionActions == AIRun \/ AICallback \/ AIFinish
WatchActions == BlinkPoll \/ BlinkExpire \/ BlinkFinal \/ BlinkRestart

SpecResume ==
  /\ Init
  /\ [][ResumeNext]_vars
  /\ SF_vars(TickActions)
  /\ WF_vars(HandlerActions)
  /\ WF_vars(DetectionActions)
  /\ WF_vars(WatchActions)
  /\ WF_vars(Elapse)

\* C38: if from some point on the system stays enabled with the process
\* PARKING, the tick thread measures the distances and evaluates the
\* closure again and again
C38_MonitoringResumes ==
  <>[] ( system_enabled /\ process = "PARKING" )
  => []<> ( pc["tick"] = "closure_eval" )

\* ------------------------------------------- a start that fails part-way
\* The program up to and after its first accepted OPEN command, where a
\* call made by start_parking_procedure can raise: the with block is left,
\* the error goes up through on_garage_command and is logged by update, and
\* the bus thread is idle again.

\* what a failing step of start_parking_procedure leaves alone
failRest == << system_enabled, user_is_home, garage_door_open,
               parking_procedure_active, close_command_sent,
               red_proximity_start_time, cfgVars, blinking, aiVars,
               blink_threads, previous_state, gateVars, pub_ai_detection,
               pub_system_enabled, red_dwell, closure_fired, detailVars >>

\* start_parking_procedure: measure_and_update_distances raises after the
\* measurement (update_leds or publish_distances fails)
StartMeasureFails ==
  /\ pc["bus"] = "start_measure"
  /\ MeasureAndUpdateDistances
  /\ ai_lock' = "none"
  /\ Goto("bus", "idle")
  /\ UNCHANGED << failRest, process, pub_process, closes_in_session >>

\* start_parking_procedure: self.process is assigned and publish_process
\* raises
StartPublishFails ==
  /\ pc["bus"] = "start_decide"
  /\ process' = ProcessFor(IsCarInGarage(distances,
                                         orange_distance_threshold))
  /\ closes_in_session' = 0
  /\ ai_lock' = "none"
  /\ Goto("bus", "idle")
  /\ UNCHANGED << failRest, distances, pub_process >>

\* start_parking_procedure: self.ai_module.start() raises
StartAIFails ==
  /\ pc["bus"] = "start_ai"
  /\ ai_lock' = "none"
  /\ Goto("bus", "idle")
  /\ UNCHANGED << failRest, distances, process, pub_process,
                  closes_in_session >>

FailNext ==
  \/ OpenNext
  \/ StartMeasureFails
  \/ StartPublishFails
  \/ StartAIFails

SpecFail == Init /\ [][FailNext]_vars

\* C39: whenever ai_lock is not held, parking_procedure_active is true
\* exactly when the process is PARKING or EXITING
C39_ActiveMatchesProcess ==
  ai_lock = "none"
  => ( parking_procedure_active <=> process \in {"PARKING", "EXITING"} )

\* ------------------------------ the two closure handlers, side by side
\* GarageClosureHandler.handle_automatic_garage_closure and the controller's
\* handle_automatic_garage_closure are given the same inputs, call after
\* call: the time that has passed, the front distance, the red threshold,
\* the process and the two flags.

\* the front distances fed: none, negative (-2: None is -1), zero, inside
\* and outside the red zone of the default threshold
EquivReadings == {None, -2, 0, 2, 4}

\* garage_closure.py handle_automatic_garage_closure: the timer, the
\* returned flags and whether CLOSE was sent
HandlerClosure(timer, front, red, p, sent, enabled) ==
  LET same == [timer |-> timer, sent |-> sent, enabled |-> enabled,
               emitted |-> FALSE]
  IN  IF front # None /\ red # None
      THEN IF front <= red
           THEN IF timer = None
                THEN [same EXCEPT !.timer = 0]
                ELSE IF timer >= CLOSE_DWELL
                     THEN IF p = "PARKING" /\ ~sent
                          THEN [timer |-> timer, sent |-> TRUE,
                                enabled |-> FALSE, emitted |-> TRUE]
                          ELSE same
                     ELSE same
           ELSE [same EXCEPT !.timer = None]
      ELSE [same EXCEPT !.timer = None]

\* the next inputs: time passes or not for both timers, and the front
\* distance, the threshold, the process and the flags are the same for both
EquivFeed ==
  /\ pc["tick"] = "loop"
  /\ \E long \in BOOLEAN :
       IF long
       THEN /\ red_proximity_start_time' = Older(red_proximity_start_time)
            /\ handler_timer' = Older(handler_timer)
       ELSE UNCHANGED << red_proximity_start_time, handler_timer >>
  /\ \E front \in EquivReadings :
       distances' = [distances EXCEPT !["front"] = front]
  /\ \E red \in {None, RED_DEFAULT} :
       red_distance_threshold' = [red_distance_threshold
                                    EXCEPT !["front"] = red]
  /\ \E p \in {"IDLE", "PARKING", "EXITING"} :
       /\ process' = p
       /\ parking_procedure_active' = (p # "IDLE")
  /\ \E sent \in BOOLEAN :
       /\ close_command_sent' = sent
       /\ handler_close_sent' = sent
  /\ \E enabled \in BOOLEAN :
       /\ system_enabled' = enabled
       /\ handler_enabled' = enabled
  /\ handler_sent' = FALSE
  /\ closure_fired' = FALSE
  /\ closes_in_session' = 0
  /\ red_dwell' = red_proximity_start_time'
  /\ Goto("tick", "standalone")
  /\ UNCHANGED << user_is_home, garage_door_open, ai_lock,
                  orange_distance_threshold, blinking, aiVars,
                  blink_threads, previous_state, gateVars, pubVars, fnVars,
                  ledVars, sub_threads, orphanVars, callbacks, measureVars,
                  settingsVars, lockVars, connectVars >>

\* the call of GarageClosureHandler.handle_automatic_garage_closure
EquivStandalone ==
  /\ pc["tick"] = "standalone"
  /\ LET r == HandlerClosure(handler_timer, distances["front"],
                             red_distance_threshold["front"], process,
                             handler_close_sent, handler_enabled)
     IN  /\ handler_timer' = r.timer
         /\ handler_close_sent' = r.sent
         /\ handler_enabled' = r.enabled
         /\ handler_sent' = r.emitted
  /\ Goto("tick", "closure_eval")
  /\ UNCHANGED << ctrlVars, cfgVars, blinking, aiVars, blink_threads,
                  previous_state, gateVars, pubVars, histVars,
                  closure_fired, fnVars, ledVars, sub_threads, orphanVars,
                  callbacks, measureVars, settingsVars, lockVars,
                  connectVars >>

EquivNext ==
  \/ EquivFeed
  \/ EquivStandalone
  \/ ClosureEval
  \/ ClosureFlag
  \/ ClosureFire

SpecEquiv == LedInit /\ [][EquivNext]_vars

\* C40: whenever both handlers have been called with the same inputs, both
\* have the timer set or both have it unset, both have sent CLOSE or
\* neither has, and close_command_sent and system_enabled have the same
\* values
C40_HandlersEquivalent ==
  [][ (pc["tick"] # "loop" /\ pc'["tick"] = "loop")
      => ( /\ ( red_proximity_start_time' = None <=> handler_timer' = None )
           /\ closure_fired' = handler_sent'
           /\ close_command_sent' = handler_close_sent'
           /\ system_enabled' = handler_enabled' ) ]_vars

=============================================================================
